---- MODULE Spec2Model ----
(***************************************************************************)
(* house-counter: the durable area store (cache_manager.CacheManager), the *)
(* in-memory query cache of ms_buildings._fetch_and_filter_buildings and   *)
(* the operations the HTTP layer of main.py runs on them.                  *)
(*                                                                         *)
(* Geography is a grid: a coordinate is a whole number of cells of 0.8     *)
(* degrees, a bbox is <<min_lon, min_lat, max_lon, max_lat>>.  Time is     *)
(* counted in ticks of TickSeconds seconds.  A data file is modelled by    *)
(* the number of rows it holds (0: no such file); the file of an area is   *)
(* named by the area's id ("<id>.parquet"), so files is indexed by ids.    *)
(***************************************************************************)
EXTENDS Integers, Sequences, FiniteSets, TLC

VARIABLES
    index,        \* CacheManager._index["areas"]: the in-memory list of areas
    index_mtime,  \* CacheManager._index_mtime
    disk,         \* cache_index.json: [exists, areas, mtime, whole]; whole:
                  \* the file holds a complete JSON document
    files,        \* the data files of the cache directory: id -> rows (0: absent)
    now,          \* the clock (time.time(), datetime.now()), in ticks
    th,           \* the worker threads: the call each one is in, and its locals
    ret,          \* what the call that returned last returned
    qcache,       \* ms_buildings._query_cache, in dict (insertion) order
    task_progress, \* main._task_progress: the record of each task id
    written,      \* per worker: the records its caching task has written
    streams       \* the open progress streams (cache_progress.event_stream)

vars == <<index, index_mtime, disk, files, now, th, ret, qcache,
          task_progress, written, streams>>

\* the durable store and the process's view of it
store == <<index, index_mtime, disk, files>>

(***************************************************************************)
(* Bounds of the model.                                                    *)
(***************************************************************************)
MaxAreas == 2
MaxTime == 2
MaxRows == 2
MaxQueryTime == 3
BatchRows == 300
MaxPolls == 3
TickSeconds == 150

(***************************************************************************)
(* Program constants.                                                      *)
(***************************************************************************)
MAX_CACHE_AREA_KM2 == 10000
DEFAULT_DENSITY_PER_KM2 == 200
CACHE_MAX_SIZE == 50
CACHE_TTL_SECONDS == 300

\* (111.32 km * 0.8)^2, the area of one grid cell near the equator, where
\* cos(center_lat) is 1 to four places.
KM2_PER_CELL == 7931

\* The worker pool (main.py, executor), cut to two threads: one that runs
\* cache_area calls and one that runs load_geodataframe calls.
Threads == {"w1", "w2"}
Cachers == {"w1"}
Loaders == {"w2"}
Ids == {"a", "b"}
LonCoord == {0, 1, 2}
LatCoord == {0, 1}
Boxes == LonCoord \X LatCoord \X LonCoord \X LatCoord

Abs(x) == IF x < 0 THEN -x ELSE x

\* estimate_cache_size: area_km2 = abs(lat_km * lon_km)
AreaKm2(b) == Abs((b[4] - b[2]) * (b[3] - b[1])) * KM2_PER_CELL

\* (mutant of TooLarge) the limit taken twice as large
TooLarge_TwiceTheLimit(b) == AreaKm2(b) > 2 * MAX_CACHE_AREA_KM2

TooLarge(b) == AreaKm2(b) > MAX_CACHE_AREA_KM2

\* the file an index entry names: cache_dir / a["file_path"], "<id>.parquet"
FilePath(a) == a.id

NoBox == <<0, 0, 0, 0>>

NoKey == <<0, 0, 0>>

NoQuery == [lat |-> 0, lon |-> 0, rad |-> 0]

\* a thread that runs no call; op is the call a thread is in (load:
\* load_geodataframe, cache: cache_area, query: _fetch_and_filter_buildings)
Idle == [pc |-> "idle", op |-> "-", id |-> "-", bbox |-> NoBox, rows |-> 0,
         tpos |-> 0, key |-> NoKey, miss |-> "-", tid |-> "-",
         q |-> NoQuery, trail |-> <<>>, t0 |-> 0,
         oldest |-> NoKey]

\* _task_progress: the task ids, and the registry with no task in it
TaskIds == {"t1", "t2"}

NoRecord == [status |-> "-", progress |-> 0, message |-> "-", area |-> <<>>]

NoTasks == [i \in TaskIds |-> NoRecord]

NoWrites == [t \in Threads |-> <<>>]

\* the content of a data file that cannot be read as parquet
Unreadable == 0 - 1

Last(w) == w[Len(w)]

\* main.py 547: current.get("status") in ("complete", "error")
IsTerminal(r) == r.status \in {"complete", "error"}

\* the clients that open progress streams
Pollers == {"p1"}

\* a stream not open: no task id, nothing emitted, no wait made
Closed == [pc |-> "closed", tid |-> "-", sent |-> <<>>, waits |-> 0, found |-> TRUE]

NoStreams == [p \in Pollers |-> Closed]


Ret0 == [op |-> "-", id |-> "-", bbox |-> NoBox, areas |-> <<>>,
         ok |-> TRUE, rows |-> 0, err |-> "-", tier |-> "-", key |-> NoKey,
         q |-> NoQuery, trail |-> <<>>]

(***************************************************************************)
(* Index persistence.                                                      *)
(***************************************************************************)

\* _ensure_fresh's test: p.exists() and p.stat().st_mtime > self._index_mtime
Stale == disk.exists /\ disk.mtime > index_mtime

\* (mutant of FreshAreas) _ensure_fresh that never reloads
FreshAreas_NoReload == index

\* self._index after _ensure_fresh (_load_index: json.load of the file; the
\* entries hold only strings, numbers and lists, which json writes and reads
\* back unchanged)
FreshAreas == IF Stale THEN disk.areas ELSE index

\* self._index_mtime after _ensure_fresh
FreshMtime == IF Stale THEN disk.mtime ELSE index_mtime

\* A reload, a clear or a pop takes entries out of the list; a thread that
\* holds one of them (load_geodataframe's target) then holds a dict that is
\* no longer in the index: tpos = 0.
Orphaned(T) == [t \in Threads |-> [T[t] EXCEPT !.tpos = 0]]

Popped(T, i) ==
    [t \in Threads |->
        [T[t] EXCEPT !.tpos = IF @ = i THEN 0 ELSE IF @ > i THEN @ - 1 ELSE @]]

FreshTh == IF Stale THEN Orphaned(th) ELSE th

\* _save_index: the whole index is written, then the file's mtime recorded
Saved(areas) == [exists |-> TRUE, areas |-> areas, mtime |-> now, whole |-> TRUE]

\* (mutant of SaveIndex) _save_index that does not record the file's mtime
SaveIndex_NoMtime ==
    /\ disk' = Saved(index')
    /\ index_mtime' = index_mtime

SaveIndex ==
    /\ disk' = Saved(index')
    /\ index_mtime' = now

SeqRemove(s, i) == [j \in 1..(Len(s) - 1) |-> IF j < i THEN s[j] ELSE s[j + 1]]

(***************************************************************************)
(* Lookups over a snapshot of the index.                                   *)
(***************************************************************************)

\* (mutant of Covers) the west edge compared with < instead of <=
Covers_StrictWestEdge(ab, q) ==
    ab[1] < q[1] /\ ab[2] <= q[2] /\ ab[3] >= q[3] /\ ab[4] >= q[4]

\* find_covering_cache's test against one area's bbox ab
Covers(ab, q) ==
    ab[1] <= q[1] /\ ab[2] <= q[2] /\ ab[3] >= q[3] /\ ab[4] >= q[4]

\* (mutant of CoveringScan) the loop without its early return: the last
\* area that covers
CoveringScan_LastMatch(areas, q, i) ==
    LET S == {j \in i..Len(areas) : Covers(areas[j].bbox, q)}
    IN  IF S = {} THEN <<>>
        ELSE <<areas[CHOOSE j \in S : \A k \in S : k <= j]>>

\* find_covering_cache's loop: the first area that covers, or None (<<>>)
RECURSIVE CoveringScan(_, _, _)
CoveringScan(areas, q, i) ==
    IF i > Len(areas) THEN <<>>
    ELSE IF Covers(areas[i].bbox, q) THEN <<areas[i]>>
    ELSE CoveringScan(areas, q, i + 1)

\* (mutant of Overlaps) rectangles that only touch taken as disjoint
Overlaps_TouchingIsDisjoint(ab, q) ==
    ~(ab[3] <= q[1] \/ ab[1] >= q[3] \/ ab[4] <= q[2] \/ ab[2] >= q[4])

\* find_overlapping's test against one area's bbox ab
Overlaps(ab, q) ==
    ~(ab[3] < q[1] \/ ab[1] > q[3] \/ ab[4] < q[2] \/ ab[2] > q[4])

\* find_overlapping's loop
RECURSIVE OverlapScan(_, _, _)
OverlapScan(areas, q, i) ==
    IF i > Len(areas) THEN <<>>
    ELSE IF Overlaps(areas[i].bbox, q)
         THEN <<areas[i]>> \o OverlapScan(areas, q, i + 1)
         ELSE OverlapScan(areas, q, i + 1)

\* the loop of load_geodataframe and of delete_area: the position of the
\* first entry with this id, 0 when there is none
RECURSIVE IdScan(_, _, _)
IdScan(areas, id, i) ==
    IF i > Len(areas) THEN 0
    ELSE IF areas[i].id = id THEN i
    ELSE IdScan(areas, id, i + 1)

(***************************************************************************)
(* Read operations.                                                        *)
(***************************************************************************)

GetCachedAreas ==
    /\ index' = FreshAreas
    /\ index_mtime' = FreshMtime
    /\ th' = FreshTh
    /\ ret' = [Ret0 EXCEPT !.op = "list", !.areas = FreshAreas]
    /\ UNCHANGED <<disk, files, now, qcache, task_progress, written, streams>>

FindCoveringCache(q) ==
    /\ index' = FreshAreas
    /\ index_mtime' = FreshMtime
    /\ th' = FreshTh
    /\ ret' = [Ret0 EXCEPT !.op = "find_covering", !.bbox = q,
                           !.areas = CoveringScan(FreshAreas, q, 1)]
    /\ UNCHANGED <<disk, files, now, qcache, task_progress, written, streams>>

FindOverlapping(q) ==
    /\ index' = FreshAreas
    /\ index_mtime' = FreshMtime
    /\ th' = FreshTh
    /\ ret' = [Ret0 EXCEPT !.op = "find_overlapping", !.bbox = q,
                           !.areas = OverlapScan(FreshAreas, q, 1)]
    /\ UNCHANGED <<disk, files, now, qcache, task_progress, written, streams>>

(***************************************************************************)
(* load_geodataframe, in the steps other threads can come between: the     *)
(* locked lookup, fp.exists(), gpd.read_parquet, the locked update.        *)
(***************************************************************************)

\* what the store tier came to for a query (the trail of a query lists the
\* tiers it has consulted, each with its outcome)
StoreOutcome(outcome, rows) ==
    IF outcome = "rows" /\ rows > 0 THEN "store-hit"
    ELSE IF outcome = "raise" THEN "store-raise"
    ELSE "store-none"

\* (mutant of LoadReturns) a query fetches from the remote source also when
\* the dataset has loaded
LoadReturns_AlwaysRemote(T, t, me, outcome, rows) ==
    IF me.op = "query"
    THEN /\ th' = [T EXCEPT ![t] =
                     [me EXCEPT !.pc = "q_remote",
                                !.tpos = 0, !.rows = rows,
                                !.trail = Append(@, StoreOutcome(outcome, rows))]]
         /\ ret' = ret
    ELSE /\ th' = [T EXCEPT ![t] = Idle]
         /\ ret' = [Ret0 EXCEPT !.op = "load", !.id = me.id,
                                !.ok = (outcome = "rows"), !.rows = rows,
                                !.err = IF outcome = "raise"
                                        THEN "FileNotFoundError" ELSE "-"]

\* (mutant of LoadReturns) an exception of the load ends the query
LoadReturns_FailsOnRaise(T, t, me, outcome, rows) ==
    IF me.op = "query"
    THEN /\ th' = [T EXCEPT ![t] =
                     [me EXCEPT !.pc = IF outcome = "rows" /\ rows > 0
                                       THEN "q_disk"
                                       ELSE IF outcome = "raise" THEN "q_failed"
                                       ELSE "q_remote",
                                !.tpos = 0, !.rows = rows,
                                !.trail = Append(@, StoreOutcome(outcome, rows))]]
         /\ ret' = ret
    ELSE /\ th' = [T EXCEPT ![t] = Idle]
         /\ ret' = [Ret0 EXCEPT !.op = "load", !.id = me.id,
                                !.ok = (outcome = "rows"), !.rows = rows,
                                !.err = IF outcome = "raise"
                                        THEN "FileNotFoundError" ELSE "-"]

\* How load_geodataframe hands its outcome ("none": None, "raise": the
\* exception of read_parquet, "rows": the dataset) to its caller.  Called on
\* its own it returns.  Called by a query (ms_buildings lines 100-101 and
\* 133-134) a dataset with rows takes the query to its disk-cache branch;
\* None, an empty dataset and an exception take it to the remote fetch.
LoadReturns(T, t, me, outcome, rows) ==
    IF me.op = "query"
    THEN /\ th' = [T EXCEPT ![t] =
                     [me EXCEPT !.pc = IF outcome = "rows" /\ rows > 0
                                       THEN "q_disk" ELSE "q_remote",
                                !.tpos = 0, !.rows = rows,
                                !.trail = Append(@, StoreOutcome(outcome, rows))]]
         /\ ret' = ret
    ELSE /\ th' = [T EXCEPT ![t] = Idle]
         /\ ret' = [Ret0 EXCEPT !.op = "load", !.id = me.id,
                                !.ok = (outcome = "rows"), !.rows = rows,
                                !.err = IF outcome = "raise"
                                        THEN "FileNotFoundError" ELSE "-"]

\* lines 155-163: with the lock: _ensure_fresh, then the scan for area_id
LoadFind(t, id, me) ==
    /\ index' = FreshAreas
    /\ index_mtime' = FreshMtime
    /\ LET pos == IdScan(FreshAreas, id, 1) IN
         IF pos = 0
         THEN LoadReturns(FreshTh, t, [me EXCEPT !.id = id], "none", 0)
         ELSE /\ th' = [FreshTh EXCEPT ![t] =
                           [me EXCEPT !.pc = "load_exists", !.id = id, !.tpos = pos,
                                      !.t0 = now]]
              /\ ret' = ret
    /\ UNCHANGED <<disk, files, now, qcache, task_progress, written, streams>>

\* load_geodataframe(id) called on its own
LoadLookup(t, id) ==
    /\ th[t].pc = "idle"
    /\ LoadFind(t, id, [Idle EXCEPT !.op = "load"])

\* (mutant of LoadExists) an entry whose file is missing is taken out of the
\* index
LoadExists_Prunes(t) ==
    /\ th[t].pc = "load_exists"
    /\ IF files[th[t].id] = 0
       THEN /\ LoadReturns(IF th[t].tpos = 0 THEN th ELSE Popped(th, th[t].tpos),
                           t, th[t], "none", 0)
            /\ index' = IF th[t].tpos = 0 THEN index
                        ELSE SeqRemove(index, th[t].tpos)
            /\ SaveIndex
       ELSE /\ th' = [th EXCEPT ![t].pc = "load_read"]
            /\ ret' = ret
            /\ UNCHANGED <<index, index_mtime, disk>>
    /\ UNCHANGED <<files, now, qcache, task_progress, written, streams>>

\* lines 164-166: fp = cache_dir / target["file_path"]; no file: return None
LoadExists(t) ==
    /\ th[t].pc = "load_exists"
    /\ IF files[th[t].id] = 0
       THEN LoadReturns(th, t, th[t], "none", 0)
       ELSE /\ th' = [th EXCEPT ![t].pc = "load_read"]
            /\ ret' = ret
    /\ UNCHANGED <<index, index_mtime, disk, files, now, qcache, task_progress, written, streams>>

\* line 167: gpd.read_parquet(str(fp)); it raises when the file is gone
LoadRead(t) ==
    /\ th[t].pc = "load_read"
    /\ IF files[th[t].id] <= 0
       THEN LoadReturns(th, t, th[t], "raise", 0)
       ELSE /\ th' = [th EXCEPT ![t].pc = "load_touch", ![t].rows = files[th[t].id]]
            /\ ret' = ret
    /\ UNCHANGED <<index, index_mtime, disk, files, now, qcache, task_progress, written, streams>>

\* lines 169-172: with the lock: target["last_accessed"] = now; _save_index().
\* The write reaches the index only while target is still one of its entries.
LoadTouch(t) ==
    /\ th[t].pc = "load_touch"
    /\ index' = IF th[t].tpos = 0 THEN index
                ELSE [index EXCEPT ![th[t].tpos].la = now]
    /\ SaveIndex
    /\ LoadReturns(th, t, th[t], "rows", th[t].rows)
    /\ UNCHANGED <<files, now, qcache, task_progress, written, streams>>

(***************************************************************************)
(* cache_area, in the steps other threads can come between: validation,    *)
(* the download and the write of the data file, the locked registration.   *)
(***************************************************************************)

InFlight ==
    Cardinality({t \in Threads :
                    th[t].pc \in {"task_queued", "cache_fetch", "cache_commit"}})

\* lines 191-193: _progress(pct, msg) calls progress_cb when one was given;
\* main.py 489-494: progress_cb writes a running record
Running(pct, msg) ==
    [status |-> "running", progress |-> pct, message |-> msg, area |-> <<>>]

\* the calls _progress(...) of one step, made by the thread whose locals are
\* me: under a task each one replaces the task's record
Progress(t, me, recs) ==
    IF me.op = "task" /\ recs # <<>>
    THEN /\ task_progress' = [task_progress EXCEPT ![me.tid] = recs[Len(recs)]]
         /\ written' = [written EXCEPT ![t] = @ \o recs]
         /\ streams' = streams
    ELSE UNCHANGED <<task_progress, written, streams>>

\* (mutant of Terminal) a None result recorded as an error
Terminal_NoneIsError(outcome, err, result) ==
    IF outcome = "entry"
    THEN [status |-> "complete", progress |-> 100, message |-> "Cached",
          area |-> result]
    ELSE [status |-> "error", progress |-> 0, message |-> err, area |-> <<>>]

\* (mutant of Terminal) an exception recorded as a completion without area
Terminal_ErrorAsComplete(outcome, err, result) ==
    IF outcome = "entry"
    THEN [status |-> "complete", progress |-> 100, message |-> "Cached",
          area |-> result]
    ELSE [status |-> "complete", progress |-> 100,
          message |-> "No buildings found in this area.", area |-> <<>>]

\* main.py 504-527: the record _run writes when cache_area has returned an
\* entry, returned None, or raised
Terminal(outcome, err, result) ==
    IF outcome = "raise"
    THEN [status |-> "error", progress |-> 0, message |-> err, area |-> <<>>]
    ELSE IF outcome = "entry"
    THEN [status |-> "complete", progress |-> 100, message |-> "Cached",
          area |-> result]
    ELSE [status |-> "complete", progress |-> 100,
          message |-> "No buildings found in this area.", area |-> <<>>]

\* cache_area ends, after the calls _progress(...) in recs: called on its
\* own it returns to (or raises at) its caller; called by a task's _run
\* (main.py 496-527) its outcome becomes the task's terminal record and
\* nothing is raised
CacheReturns(t, me, outcome, err, result, recs) ==
    /\ th' = [th EXCEPT ![t] = Idle]
    /\ IF me.op = "task"
       THEN /\ ret' = ret
            /\ task_progress' =
                  [task_progress EXCEPT ![me.tid] = Terminal(outcome, err, result)]
            /\ written' =
                  [written EXCEPT ![t] = @ \o recs \o <<Terminal(outcome, err, result)>>]
            /\ streams' = streams
       ELSE /\ ret' = [Ret0 EXCEPT !.op = "cache", !.bbox = me.bbox, !.id = me.id,
                                   !.ok = (outcome # "raise"), !.err = err,
                                   !.areas = result]
            /\ UNCHANGED <<task_progress, written, streams>>

\* (mutant of CacheBegin) cache_area without its first _progress call
CacheBegin_Silent(t, me, id) ==
    IF TooLarge(me.bbox)
    THEN CacheReturns(t, me, "raise", "ValueError", <<>>, <<>>)
    ELSE /\ th' = [th EXCEPT ![t] = [me EXCEPT !.pc = "cache_fetch", !.id = id]]
         /\ ret' = ret
         /\ UNCHANGED <<task_progress, written, streams>>

\* lines 195-207: the size check, then area_id = uuid.uuid4().hex[:8]: any id,
\* nothing compares it with the ids in use; _progress(2, ...)
CacheBegin(t, me, id) ==
    IF TooLarge(me.bbox)
    THEN CacheReturns(t, me, "raise", "ValueError", <<>>, <<>>)
    ELSE /\ th' = [th EXCEPT ![t] = [me EXCEPT !.pc = "cache_fetch", !.id = id]]
         /\ ret' = ret
         /\ Progress(t, me, <<Running(2, "Connecting")>>)

\* cache_area(bbox, ...) called on its own
CacheStart(t, bbox, id) ==
    /\ th[t].pc = "idle"
    /\ Len(index) + InFlight < MaxAreas
    /\ CacheBegin(t, [Idle EXCEPT !.op = "cache", !.bbox = bbox], id)
    /\ UNCHANGED <<index, index_mtime, disk, files, now, qcache>>

\* line 214: expected = max(est["estimated_buildings"], 500), with line 112:
\* est_buildings = int(area_km2 * DEFAULT_DENSITY_PER_KM2)
Expected(bbox) ==
    LET est == AreaKm2(bbox) * DEFAULT_DENSITY_PER_KM2 IN
    IF est > 500 THEN est ELSE 500

\* (mutant of Pct) the download percentage without its cap of 70
Pct_Uncapped(total, expected) == 5 + (65 * total) \div expected

\* line 223: pct = min(5 + int(65 * total_rows / expected), 70)
Pct(total, expected) ==
    LET p == 5 + (65 * total) \div expected IN
    IF p < 70 THEN p ELSE 70

\* lines 216-224: _progress(5, ...), then one _progress per record batch with
\* the rows downloaded so far: n rows arrive in batches of BatchRows
Downloading(n, bbox) ==
    <<Running(5, "Downloading")>> \o
    [k \in 1..((n + BatchRows - 1) \div BatchRows) |->
        Running(Pct(IF k * BatchRows < n THEN k * BatchRows ELSE n, Expected(bbox)),
                "Downloaded")]

\* (mutant of CacheEmpty) no early return for zero rows: the empty result
\* is registered like any other
CacheEmpty_Registers(t) ==
    /\ th[t].pc = "cache_fetch"
    /\ index' = Append(index, [id |-> th[t].id, bbox |-> th[t].bbox,
                                count |-> 0, la |-> now])
    /\ SaveIndex
    /\ th' = [th EXCEPT ![t] = Idle]
    /\ ret' = [Ret0 EXCEPT !.op = "cache", !.bbox = th[t].bbox, !.id = th[t].id]
    /\ UNCHANGED <<files, now, qcache, task_progress, written, streams>>

\* lines 210-228: the reader yields no rows: _progress(100, ...), return None
CacheEmpty(t) ==
    /\ th[t].pc = "cache_fetch"
    /\ CacheReturns(t, th[t], "none", "-", <<>>,
                    Downloading(0, th[t].bbox) \o <<Running(100, "No buildings found")>>)
    /\ UNCHANGED <<index, index_mtime, disk, files, now, qcache>>

\* lines 230-243: rows without a geometry column: return None
CacheNoGeometry(t) ==
    /\ th[t].pc = "cache_fetch"
    /\ \E n \in 1..MaxRows :
          CacheReturns(t, th[t], "none", "no geometry", <<>>,
                       Downloading(n, th[t].bbox) \o
                       <<Running(72, "Merging"), Running(75, "Converting"),
                         Running(100, "No geometry column")>>)
    /\ UNCHANGED <<index, index_mtime, disk, files, now, qcache>>

\* lines 210, 218: overturemaps.record_batch_reader raises, or its iteration
\* does after _progress(5, ...)
CacheRemoteError(t) ==
    /\ th[t].pc = "cache_fetch"
    /\ \E recs \in {<<>>, Downloading(0, th[t].bbox)} :
          CacheReturns(t, th[t], "raise", "RemoteError", <<>>, recs)
    /\ UNCHANGED <<index, index_mtime, disk, files, now, qcache>>

\* the calls _progress(...) of lines 216-254 for n rows with geometry
Saving(n, bbox) ==
    Downloading(n, bbox) \o
    <<Running(72, "Merging"), Running(75, "Converting"), Running(85, "Saving")>>

\* line 255: gdf.to_parquet raises (no space, no permission): the file it
\* was writing is not there (left = 0) or is there and unreadable
CacheWriteError(t, n, left) ==
    /\ th[t].pc = "cache_fetch"
    /\ n > 0
    /\ left \in {0, Unreadable}
    /\ files' = [files EXCEPT ![th[t].id] = IF left = 0 THEN @ ELSE left]
    /\ CacheReturns(t, th[t], "raise", "OSError", <<>>, Saving(n, th[t].bbox))
    /\ UNCHANGED <<index, index_mtime, disk, now, qcache>>

\* lines 218-256: n > 0 rows with geometry; gdf.to_parquet(full_path) writes
\* (or overwrites) "<id>.parquet" with the n rows
CacheSave(t, n) ==
    /\ th[t].pc = "cache_fetch"
    /\ n > 0
    /\ files' = [files EXCEPT ![th[t].id] = n]
    /\ th' = [th EXCEPT ![t].pc = "cache_commit", ![t].rows = n]
    /\ Progress(t, th[t], Saving(n, th[t].bbox))
    /\ UNCHANGED <<index, index_mtime, disk, now, ret, qcache>>

\* lines 265-279: building_count is len(gdf), the rows written
AreaEntry(t) ==
    [id |-> th[t].id, bbox |-> th[t].bbox, count |-> th[t].rows, la |-> now]

\* lines 281-290: with the lock: append, _save_index(); _progress(100, ...);
\* return the entry
CacheCommit(t) ==
    /\ th[t].pc = "cache_commit"
    /\ index' = Append(index, AreaEntry(t))
    /\ SaveIndex
    /\ CacheReturns(t, th[t], "entry", "-", <<AreaEntry(t)>>,
                    <<Running(100, "Cached")>>)
    /\ UNCHANGED <<files, now, qcache>>

\* lines 232-252: the merge or the conversion of the geometry raises, with
\* n rows downloaded and nothing written
CacheConvertError(t, n) ==
    /\ th[t].pc = "cache_fetch"
    /\ n > 0
    /\ \E recs \in {<<Running(72, "Merging")>>,
                     <<Running(72, "Merging"), Running(75, "Converting")>>} :
          CacheReturns(t, th[t], "raise", "ConversionError", <<>>,
                       Downloading(n, th[t].bbox) \o recs)
    /\ UNCHANGED <<index, index_mtime, disk, files, now, qcache>>

\* the index file after open(p, "w") and before the end of json.dump: empty
\* or holding the beginning of the document
Torn == [exists |-> TRUE, areas |-> <<>>, mtime |-> now, whole |-> FALSE]

\* lines 281-283 with _save_index raising (no space, no permission): the
\* entry has been appended; open(p, "w") raised and the file is as it was
\* (opened = FALSE), or a later write did and the file is torn; line 80 is
\* not reached.  Nothing removes the entry or the data file.
CacheIndexError(t, opened) ==
    /\ th[t].pc = "cache_commit"
    /\ index' = Append(index, AreaEntry(t))
    /\ disk' = IF opened THEN Torn ELSE disk
    /\ CacheReturns(t, th[t], "raise", "OSError", <<>>, <<>>)
    /\ UNCHANGED <<index_mtime, files, now, qcache>>

\* the dict area_entry of lines 266-279 as the thread holds it after the
\* registration, which it made at time t0
Registered(t) ==
    [id |-> th[t].id, bbox |-> th[t].bbox, count |-> th[t].rows, la |-> th[t].t0]

\* lines 281-283 alone: with the lock: append, _save_index().  area_entry is
\* then one of the dicts of the list (tpos: its place).
CacheRegister(t) ==
    /\ th[t].pc = "cache_commit"
    /\ index' = Append(index, AreaEntry(t))
    /\ SaveIndex
    /\ th' = [th EXCEPT ![t].pc = "cache_done", ![t].t0 = now,
                        ![t].tpos = Len(index) + 1]
    /\ UNCHANGED <<files, now, ret, qcache, task_progress, written, streams>>

\* lines 285-290 and main.py 505-514: _progress(100, ...), return area_entry;
\* _run writes the complete record with the entry
CacheDone(t) ==
    /\ th[t].pc = "cache_done"
    /\ CacheReturns(t, th[t], "entry", "-", <<Registered(t)>>,
                    <<Running(100, "Cached")>>)
    /\ UNCHANGED <<index, index_mtime, disk, files, now, qcache>>

(***************************************************************************)
(* main.py: caching tasks.  start_cache runs on the event loop; _run runs  *)
(* on a worker of the pool.                                                *)
(***************************************************************************)

Queued == [status |-> "queued", progress |-> 0, message |-> "Queued", area |-> <<>>]

\* main.py 468-530: the size check (HTTP 400, nothing else done), then
\* task_id = uuid.uuid4().hex[:12]: any id; the queued record;
\* executor.submit(_run), which worker t will run
StartCache(t, bbox, tid) ==
    /\ th[t].pc = "idle"
    /\ Len(index) + InFlight < MaxAreas
    /\ IF TooLarge(bbox)
       THEN /\ ret' = [Ret0 EXCEPT !.op = "start_cache", !.bbox = bbox,
                                   !.ok = FALSE, !.err = "HTTP 400"]
            /\ UNCHANGED <<th, task_progress, written, streams>>
       ELSE /\ streams' = streams
            /\ task_progress' = [task_progress EXCEPT ![tid] = Queued]
            /\ written' = [written EXCEPT ![t] = <<Queued>>]
            /\ th' = [th EXCEPT ![t] =
                        [Idle EXCEPT !.pc = "task_queued", !.op = "task",
                                     !.tid = tid, !.bbox = bbox]]
            /\ ret' = [Ret0 EXCEPT !.op = "start_cache", !.bbox = bbox, !.id = tid]
    /\ UNCHANGED <<index, index_mtime, disk, files, now, qcache>>

\* main.py 488-503: a worker starts _run, which calls cache_area
TaskRun(t, id) ==
    /\ th[t].pc = "task_queued"
    /\ CacheBegin(t, th[t], id)
    /\ UNCHANGED <<index, index_mtime, disk, files, now, qcache>>

(***************************************************************************)
(* main.py 533-557: cache_progress.  The handler answers 404 for a task id *)
(* without a record; otherwise event_stream runs on the event loop: until  *)
(* its deadline of 600 s it reads the record every 0.4 s and yields it     *)
(* when it differs from the one yielded last; after a terminal record it   *)
(* sleeps 1 s and ends.  The deadline is counted in reads: MaxPolls of     *)
(* them stand for the 1500 that fit in 600 s.                              *)
(***************************************************************************)

\* lines 536-537 and 540-542: 404, or the stream opens with last_sent = None
OpenStream(p, tid) ==
    /\ streams[p].pc \in {"closed", "ended"}
    /\ streams' = [streams EXCEPT ![p] =
                      IF task_progress[tid] = NoRecord
                      THEN [Closed EXCEPT !.tid = tid, !.found = FALSE]
                      ELSE [Closed EXCEPT !.tid = tid, !.pc = "poll"]]
    /\ UNCHANGED <<index, index_mtime, disk, files, now, th, ret, qcache,
                   task_progress, written>>

\* (mutant of Emits) every record read is yielded
Emits_Always(current, sent) == current # NoRecord

\* line 544: if current and current != last_sent (last_sent is the record
\* yielded last, None before the first)
Emits(current, sent) ==
    current # NoRecord /\ (sent = <<>> \/ current # Last(sent))

\* (mutant of AfterYield) the stream goes on after a terminal record
AfterYield_GoesOn(current) == "poll"

\* lines 547-550: after a terminal record: sleep(1), break
AfterYield(current) == IF IsTerminal(current) THEN "grace" ELSE "poll"

\* lines 542-551: one pass of the loop before the deadline
StreamPoll(p) ==
    /\ streams[p].pc = "poll"
    /\ streams[p].waits < MaxPolls
    /\ LET current == task_progress[streams[p].tid] IN
         streams' = [streams EXCEPT ![p] =
                       IF Emits(current, streams[p].sent)
                       THEN [@ EXCEPT !.sent = Append(@, current),
                                      !.waits = @ + 1,
                                      !.pc = AfterYield(current)]
                       ELSE [@ EXCEPT !.waits = @ + 1]]
    /\ UNCHANGED <<index, index_mtime, disk, files, now, th, ret, qcache,
                   task_progress, written>>

\* (mutant of StreamTimeout) the end of the wait ends the task as well
StreamTimeout_StopsTask(p) ==
    /\ streams[p].pc = "poll"
    /\ streams[p].waits = MaxPolls
    /\ streams' = [streams EXCEPT ![p].pc = "ended"]
    /\ th' = [t \in Threads |->
                IF th[t].op = "task" /\ th[t].tid = streams[p].tid
                THEN Idle ELSE th[t]]
    /\ UNCHANGED <<index, index_mtime, disk, files, now, ret, qcache,
                   task_progress, written>>

\* line 542: the deadline has passed: the loop ends, and the stream with it
StreamTimeout(p) ==
    /\ streams[p].pc = "poll"
    /\ streams[p].waits = MaxPolls
    /\ streams' = [streams EXCEPT ![p].pc = "ended"]
    /\ UNCHANGED <<index, index_mtime, disk, files, now, th, ret, qcache,
                   task_progress, written>>

\* lines 549-550: the sleep of 1 s is over: break
StreamEnd(p) ==
    /\ streams[p].pc = "grace"
    /\ streams' = [streams EXCEPT ![p].pc = "ended"]
    /\ UNCHANGED <<index, index_mtime, disk, files, now, th, ret, qcache,
                   task_progress, written>>

(***************************************************************************)
(* delete_area and clear_all: one locked section each, no _ensure_fresh.   *)
(***************************************************************************)

\* (mutant of DeleteArea) an entry whose file is missing is not deleted
DeleteArea_NeedsFile(id) ==
    LET pos == IdScan(index, id, 1) IN
    IF pos = 0 \/ files[id] = 0
    THEN /\ ret' = [Ret0 EXCEPT !.op = "delete", !.id = id, !.ok = FALSE]
         /\ UNCHANGED <<index, index_mtime, disk, files, now, th, qcache, task_progress, written, streams>>
    ELSE /\ files' = [files EXCEPT ![FilePath(index[pos])] = 0]
         /\ index' = SeqRemove(index, pos)
         /\ SaveIndex
         /\ th' = Popped(th, pos)
         /\ ret' = [Ret0 EXCEPT !.op = "delete", !.id = id]
         /\ UNCHANGED <<now, qcache, task_progress, written, streams>>

DeleteArea(id) ==
    LET pos == IdScan(index, id, 1) IN
    IF pos = 0
    THEN /\ ret' = [Ret0 EXCEPT !.op = "delete", !.id = id, !.ok = FALSE]
         /\ UNCHANGED <<index, index_mtime, disk, files, now, th, qcache, task_progress, written, streams>>
    ELSE /\ files' = [files EXCEPT ![FilePath(index[pos])] = 0]
         /\ index' = SeqRemove(index, pos)
         /\ SaveIndex
         /\ th' = Popped(th, pos)
         /\ ret' = [Ret0 EXCEPT !.op = "delete", !.id = id]
         /\ UNCHANGED <<now, qcache, task_progress, written, streams>>

\* (mutant of ClearAll) the count is taken after the index is emptied
ClearAll_CountsAfter ==
    /\ files' = [f \in Ids |->
                    IF \E i \in 1..Len(index) : FilePath(index[i]) = f
                    THEN 0 ELSE files[f]]
    /\ index' = <<>>
    /\ SaveIndex
    /\ th' = Orphaned(th)
    /\ ret' = [Ret0 EXCEPT !.op = "clear", !.rows = Len(index')]
    /\ UNCHANGED <<now, qcache, task_progress, written, streams>>

ClearAll ==
    /\ files' = [f \in Ids |->
                    IF \E i \in 1..Len(index) : FilePath(index[i]) = f
                    THEN 0 ELSE files[f]]
    /\ index' = <<>>
    /\ SaveIndex
    /\ th' = Orphaned(th)
    /\ ret' = [Ret0 EXCEPT !.op = "clear", !.rows = Len(index)]
    /\ UNCHANGED <<now, qcache, task_progress, written, streams>>

(***************************************************************************)
(* The environment: the clock.                                             *)
(***************************************************************************)

Tick ==
    /\ now < MaxTime
    /\ now' = now + 1
    /\ UNCHANGED <<index, index_mtime, disk, files, th, ret, qcache, task_progress, written, streams>>

(***************************************************************************)
(* The store in one process.  CacheManager() on an empty cache directory:  *)
(* no index file, _index_mtime 0, {"areas": []}.                           *)
(***************************************************************************)

\* The bboxes the calls of Spec are made with: a lookup inside the first
\* input; inputs of one cell, with min_lon > max_lon, and of two cells
\* (15,862 km2, over the limit).
QueryBoxes == {<<1, 0, 1, 1>>}

InputBoxes == {<<0, 0, 1, 1>>, <<1, 0, 0, 1>>, <<0, 0, 2, 1>>}

Init ==
    /\ index = <<>>
    /\ index_mtime = 0
    /\ disk = [exists |-> FALSE, areas |-> <<>>, mtime |-> 0, whole |-> TRUE]
    /\ files = [f \in Ids |-> 0]
    /\ now = 1
    /\ th = [t \in Threads |-> Idle]
    /\ ret = Ret0
    /\ qcache = <<>>
    /\ task_progress = NoTasks
    /\ written = NoWrites
    /\ streams = NoStreams

Next ==
    \/ GetCachedAreas
    \/ \E q \in QueryBoxes : FindCoveringCache(q)
    \/ \E q \in QueryBoxes : FindOverlapping(q)
    \/ \E t \in Loaders, id \in Ids : LoadLookup(t, id)
    \/ \E t \in Threads : LoadExists(t)
    \/ \E t \in Threads : LoadRead(t)
    \/ \E t \in Threads : LoadTouch(t)
    \/ \E t \in Cachers, b \in InputBoxes, id \in Ids : CacheStart(t, b, id)
    \/ \E t \in Threads : CacheEmpty(t)
    \/ \E t \in Threads : CacheNoGeometry(t)
    \/ \E t \in Threads : CacheRemoteError(t)
    \/ \E t \in Threads, n \in 1..MaxRows : CacheSave(t, n)
    \/ \E t \in Threads : CacheCommit(t)
    \/ \E id \in Ids : DeleteArea(id)
    \/ ClearAll
    \/ Tick

Spec == Init /\ [][Next]_vars

(***************************************************************************)
(* A second process on the same cache directory.  It runs this program:    *)
(* its cache_area writes a data file and then rewrites the index file with *)
(* one more entry, its delete_area unlinks a data file and rewrites the    *)
(* index file without the entry.  Its view of the index is the file's      *)
(* content.  SpecExt is this process reading, loading and deleting in a    *)
(* store that the other process fills.                                     *)
(***************************************************************************)

ExternalCacheArea(id, bbox, n) ==
    /\ Len(disk.areas) < MaxAreas
    /\ n > 0
    /\ files' = [files EXCEPT ![id] = n]
    /\ disk' = Saved(Append(disk.areas,
                            [id |-> id, bbox |-> bbox, count |-> n, la |-> now]))
    /\ UNCHANGED <<index, index_mtime, now, th, ret, qcache, task_progress, written, streams>>

ExternalDeleteArea(id) ==
    LET pos == IdScan(disk.areas, id, 1) IN
    /\ pos # 0
    /\ files' = [files EXCEPT ![FilePath(disk.areas[pos])] = 0]
    /\ disk' = Saved(SeqRemove(disk.areas, pos))
    /\ UNCHANGED <<index, index_mtime, now, th, ret, qcache, task_progress, written, streams>>

ExternalBoxes == {<<0, 0, 1, 1>>}

ExternalRows == {1}

NextExt ==
    \/ GetCachedAreas
    \/ \E q \in QueryBoxes : FindCoveringCache(q)
    \/ \E q \in QueryBoxes : FindOverlapping(q)
    \/ \E t \in Loaders, id \in Ids : LoadLookup(t, id)
    \/ \E t \in Threads : LoadExists(t)
    \/ \E t \in Threads : LoadRead(t)
    \/ \E t \in Threads : LoadTouch(t)
    \/ \E id \in Ids : DeleteArea(id)
    \/ ClearAll
    \/ \E id \in Ids, b \in ExternalBoxes, n \in ExternalRows : ExternalCacheArea(id, b, n)
    \/ \E id \in Ids : ExternalDeleteArea(id)
    \/ Tick

SpecExt == Init /\ [][NextExt]_vars

(***************************************************************************)
(* The lookups over any index: SpecGeo starts from every index of up to    *)
(* MaxAreas areas over GeoBoxes and runs the three read operations with    *)
(* every bbox of the grid.  The first area is the one accessed longest ago *)
(* and the file "a.parquet" is gone (the state two cache_area calls that   *)
(* drew the same id and a delete_area leave behind).                       *)
(***************************************************************************)

WellFormed(b) == b[1] <= b[3] /\ b[2] <= b[4]

\* what cache_area lets into the index: every bbox not over the size limit;
\* of those with a minimum above its maximum, two stand for the rest
GeoBoxes ==
    {b \in Boxes : WellFormed(b) /\ ~TooLarge(b)} \cup {<<1, 0, 0, 1>>, <<0, 1, 1, 0>>}

IdAt(i) == IF i % 2 = 1 THEN "a" ELSE "b"

InitGeo ==
    /\ \E n \in 0..MaxAreas : \E bs \in [1..n -> GeoBoxes] :
          index = [i \in 1..n |->
                     [id |-> IdAt(i), bbox |-> bs[i], count |-> 1,
                      la |-> IF i = 1 THEN 0 ELSE 1]]
    /\ index_mtime = 1
    /\ disk = [exists |-> TRUE, areas |-> index, mtime |-> 1, whole |-> TRUE]
    /\ files = [f \in Ids |-> IF f = "a" THEN 0 ELSE 1]
    /\ now = 1
    /\ th = [t \in Threads |-> Idle]
    /\ ret = Ret0
    /\ qcache = <<>>
    /\ task_progress = NoTasks
    /\ written = NoWrites
    /\ streams = NoStreams

\* one lookup per run: a lookup leaves the index as it is, so a second one
\* would start from the same store
FirstCall == ret = Ret0

NextGeo ==
    \/ FirstCall /\ GetCachedAreas
    \/ \E q \in Boxes : FirstCall /\ FindCoveringCache(q)
    \/ \E q \in Boxes : FirstCall /\ FindOverlapping(q)

SpecGeo == InitGeo /\ [][NextGeo]_vars

(***************************************************************************)
(* ms_buildings: the in-memory query cache in front of the store and the   *)
(* remote source.  _query_cache is a dict: qcache lists its items in the   *)
(* dict's iteration order (insertion order), each item with its key, the   *)
(* number of rows of the cached dataset and the time.time() it was cached  *)
(* at.  A query's latitude and longitude are given in units of 1e-7        *)
(* degree and its radius in centimetres, one decimal finer than the cache  *)
(* key keeps.                                                              *)
(***************************************************************************)

\* round(x, n) for x given in units ten times finer than the n-th decimal
RoundHalfEven(x, m) ==
    LET q == x \div m
        r == x % m
    IN  IF 2 * r < m THEN q
        ELSE IF 2 * r > m THEN q + 1
        ELSE IF q % 2 = 0 THEN q ELSE q + 1

\* line 64: (round(lat, 6), round(lon, 6), round(radius_meters, 1))
GetCacheKey(q) ==
    <<RoundHalfEven(q.lat, 10), RoundHalfEven(q.lon, 10), RoundHalfEven(q.rad, 10)>>

\* one grid cell (0.8 degree) in units of 1e-7 degree
CELL == 8000000

FloorDiv(x, m) == x \div m

CeilDiv(x, m) == IF x % m = 0 THEN x \div m ELSE (x \div m) + 1

\* lines 42-48: degrees(radius_meters / R), in units of 1e-7 degree for a
\* radius in centimetres: 8.993e-6 degree per metre with R = 6371000
AngularDistance(rad) == (rad * 8993) \div 10000

\* get_bounding_box, given by the grid lines around the box.  The areas'
\* edges are grid lines and find_covering_cache compares the box with
\* nothing else: an edge a of an area has a <= x iff a <= floor(x) and
\* a >= x iff a >= ceil(x).  delta_lon is taken as the angular distance, from
\* which it differs by less than 1/5000 at latitudes under one degree.
BoundingBoxCells(q) ==
    LET d == AngularDistance(q.rad) IN
    <<FloorDiv(q.lon - d, CELL), FloorDiv(q.lat - d, CELL),
      CeilDiv(q.lon + d, CELL), CeilDiv(q.lat + d, CELL)>>

\* position of key in the dict, 0 when absent
RECURSIVE KeyPos(_, _, _)
KeyPos(c, key, i) ==
    IF i > Len(c) THEN 0
    ELSE IF c[i].key = key THEN i
    ELSE KeyPos(c, key, i + 1)

\* line 88 with a hit at the age of exactly the TTL
Live_Inclusive(e) == (now - e.time) * TickSeconds <= CACHE_TTL_SECONDS

\* line 88: time.time() - cached_time < _CACHE_TTL_SECONDS
Live(e) == (now - e.time) * TickSeconds < CACHE_TTL_SECONDS

\* lines 129 and 185: min(_query_cache, key=lambda k: _query_cache[k][1]),
\* the first key in iteration order among those with the least time
OldestPos(c) ==
    LET times == {c[i].time : i \in 1..Len(c)}
        least == CHOOSE x \in times : \A y \in times : x <= y
    IN  CHOOSE i \in 1..Len(c) :
            c[i].time = least /\ \A j \in 1..(i - 1) : c[j].time # least

\* _query_cache[cache_key] = (gdf, time.time()): a key of the dict keeps its
\* place, a new key goes last
CacheSet(c, key, rows) ==
    LET i == KeyPos(c, key, 1)
        e == [key |-> key, gdf |-> rows, time |-> now]
    IN  IF i = 0 THEN Append(c, e) ELSE [c EXCEPT ![i] = e]

\* lines 128-131 and 184-187: evict the oldest at _CACHE_MAX_SIZE, then insert
Populate(c, key, rows) ==
    CacheSet(IF Len(c) >= CACHE_MAX_SIZE THEN SeqRemove(c, OldestPos(c)) ELSE c,
             key, rows)

QueryRet(t, tier, rows) ==
    [Ret0 EXCEPT !.op = "query", !.key = th[t].key, !.tier = tier, !.rows = rows,
                 !.q = th[t].q,
                 !.trail = IF tier = "remote" THEN Append(th[t].trail, "remote")
                           ELSE th[t].trail]

\* lines 83-94: the key, the memory cache tier, the bbox.  A live item is
\* returned; an expired one is deleted and the query goes on.
QLookup(t, q) ==
    /\ th[t].pc = "idle"
    /\ LET key == GetCacheKey(q)
           i == KeyPos(qcache, key, 1)
       IN  IF i # 0 /\ Live(qcache[i])
           THEN /\ ret' = [Ret0 EXCEPT !.op = "query", !.key = key,
                                       !.tier = "memory", !.rows = qcache[i].gdf,
                                       !.q = q, !.trail = <<"memory-hit">>]
                /\ UNCHANGED <<th, qcache, task_progress, written, streams>>
           ELSE /\ qcache' = IF i # 0 THEN SeqRemove(qcache, i) ELSE qcache
                /\ th' = [th EXCEPT ![t] =
                            [Idle EXCEPT !.pc = "q_cover", !.op = "query",
                                         !.key = key, !.bbox = BoundingBoxCells(q),
                                         !.miss = IF i # 0 THEN "expired" ELSE "absent",
                                         !.q = q, !.trail = <<"memory-miss">>]]
                /\ ret' = ret
    /\ UNCHANGED <<index, index_mtime, disk, files, now, task_progress, written, streams>>

\* lines 97-99: covering = disk_mgr.find_covering_cache(bbox)
QCover(t) ==
    /\ th[t].pc = "q_cover"
    /\ index' = FreshAreas
    /\ index_mtime' = FreshMtime
    /\ LET covering == CoveringScan(FreshAreas, th[t].bbox, 1) IN
         th' = [FreshTh EXCEPT ![t] =
                  IF covering = <<>>
                  THEN [th[t] EXCEPT !.pc = "q_remote",
                                     !.trail = Append(@, "store-nocover")]
                  ELSE [th[t] EXCEPT !.pc = "q_load", !.id = covering[1].id]]
    /\ UNCHANGED <<disk, files, now, ret, qcache, task_progress, written, streams>>

\* line 100: disk_gdf = disk_mgr.load_geodataframe(covering["id"])
QLoad(t) ==
    /\ th[t].pc = "q_load"
    /\ LoadFind(t, th[t].id, th[t])

\* lines 101-132: the loaded dataset filtered to the bbox and the circle (m
\* of its rows remain), cached in memory and returned
QDisk(t, m) ==
    /\ th[t].pc = "q_disk"
    /\ m <= th[t].rows
    /\ qcache' = Populate(qcache, th[t].key, m)
    /\ th' = [th EXCEPT ![t] = Idle]
    /\ ret' = QueryRet(t, "disk", m)
    /\ UNCHANGED <<index, index_mtime, disk, files, now, task_progress, written, streams>>

\* lines 101-134: the filter of the loaded dataset raises (a projection or
\* geometry error): the except clause prints it and the query goes on to
\* the remote fetch
QDiskRaise(t) ==
    /\ th[t].pc = "q_disk"
    /\ th' = [th EXCEPT ![t].pc = "q_remote",
                        ![t].trail = Append(SubSeq(@, 1, Len(@) - 1), "store-raise")]
    /\ UNCHANGED <<index, index_mtime, disk, files, now, ret, qcache, task_progress, written, streams>>

\* lines 144-150: the remote source returns no record
QRemoteEmpty(t) ==
    /\ th[t].pc = "q_remote"
    /\ qcache' = CacheSet(qcache, th[t].key, 0)
    /\ th' = [th EXCEPT ![t] = Idle]
    /\ ret' = QueryRet(t, "remote", 0)
    /\ UNCHANGED <<index, index_mtime, disk, files, now, task_progress, written, streams>>

\* lines 152-161: records without a geometry column
QRemoteNoGeometry(t) ==
    /\ th[t].pc = "q_remote"
    /\ qcache' = CacheSet(qcache, th[t].key, 0)
    /\ th' = [th EXCEPT ![t] = Idle]
    /\ ret' = [QueryRet(t, "remote", 0) EXCEPT !.err = "no geometry"]
    /\ UNCHANGED <<index, index_mtime, disk, files, now, task_progress, written, streams>>

\* lines 163-167: the fetch raises: an empty dataset is returned, not cached
QRemoteError(t) ==
    /\ th[t].pc = "q_remote"
    /\ th' = [th EXCEPT ![t] = Idle]
    /\ ret' = [QueryRet(t, "remote", 0) EXCEPT !.err = "RemoteError"]
    /\ UNCHANGED <<index, index_mtime, disk, files, now, qcache, task_progress, written, streams>>

\* lines 144-189: n records, of which m intersect the circle, cached in
\* memory and returned
QRemoteRows(t, n, m) ==
    /\ th[t].pc = "q_remote"
    /\ n > 0 /\ m <= n
    /\ qcache' = Populate(qcache, th[t].key, m)
    /\ th' = [th EXCEPT ![t] = Idle]
    /\ ret' = QueryRet(t, "remote", m)
    /\ UNCHANGED <<index, index_mtime, disk, files, now, task_progress, written, streams>>

\* the clock of SpecMemo, in ticks of TickSeconds
QTick ==
    /\ now < MaxQueryTime
    /\ now' = now + 1
    /\ UNCHANGED <<index, index_mtime, disk, files, th, ret, qcache, task_progress, written, streams>>

\* The queries of SpecMemo: inside the cell of the cached area; the same
\* place and radius less than the key's precision away; on the grid line
\* between that cell and the next, which no cached area covers.
Queries ==
    { [lat |-> 4000000, lon |-> 4000000, rad |-> 100000],
      [lat |-> 4000004, lon |-> 4000000, rad |-> 100004],
      [lat |-> 4000000, lon |-> 8000000, rad |-> 100000] }

Queriers == {"w1"}

\* the numbers of records a fetch of SpecMemo returns
FetchedRows == {1}

\* a memory cache one short of _CACHE_MAX_SIZE, left by earlier queries of
\* other places, cached at times 0 and 1
Prefilled ==
    [i \in 1..(CACHE_MAX_SIZE - 1) |->
        [key |-> <<i, 0, 10000>>, gdf |-> 1, time |-> IF i % 2 = 1 THEN 1 ELSE 0]]

CachedArea == [id |-> "a", bbox |-> <<0, 0, 1, 1>>, count |-> 1, la |-> 1]

\* the process with one cached area in its store, its data file readable or
\* not, and with an empty memory cache or a nearly full one
InitMemo ==
    /\ index = <<CachedArea>>
    /\ index_mtime = 1
    /\ disk = [exists |-> TRUE, areas |-> index, mtime |-> 1, whole |-> TRUE]
    /\ \E c \in {1, Unreadable} : files = [f \in Ids |-> IF f = "a" THEN c ELSE 0]
    /\ now = 1
    /\ th = [t \in Threads |-> Idle]
    /\ ret = Ret0
    /\ qcache \in {<<>>, Prefilled}
    /\ task_progress = NoTasks
    /\ written = NoWrites
    /\ streams = NoStreams

NextMemo ==
    \/ \E t \in Queriers, q \in Queries : QLookup(t, q)
    \/ \E t \in Threads : QCover(t)
    \/ \E t \in Threads : QLoad(t)
    \/ \E t \in Threads : LoadExists(t)
    \/ \E t \in Threads : LoadRead(t)
    \/ \E t \in Threads : LoadTouch(t)
    \/ \E t \in Threads, m \in 0..1 : QDisk(t, m)
    \/ \E t \in Threads : QDiskRaise(t)
    \/ \E t \in Threads : QRemoteEmpty(t)
    \/ \E t \in Threads : QRemoteNoGeometry(t)
    \/ \E t \in Threads : QRemoteError(t)
    \/ \E t \in Threads, n \in FetchedRows, m \in 0..1 : QRemoteRows(t, n, m)
    \/ \E id \in Ids : DeleteArea(id)
    \/ QTick

SpecMemo == InitMemo /\ [][NextMemo]_vars

(***************************************************************************)
(* Queries beside a second process: SpecQueryExt is the querying process   *)
(* with one cached area and an empty memory cache, while another process   *)
(* on the same cache directory caches and deletes areas.                   *)
(***************************************************************************)

InitQueryExt ==
    /\ index = <<CachedArea>>
    /\ index_mtime = 1
    /\ disk = [exists |-> TRUE, areas |-> index, mtime |-> 1, whole |-> TRUE]
    /\ files = [f \in Ids |-> IF f = "a" THEN 1 ELSE 0]
    /\ now = 1
    /\ th = [t \in Threads |-> Idle]
    /\ ret = Ret0
    /\ qcache = <<>>
    /\ task_progress = NoTasks
    /\ written = NoWrites
    /\ streams = NoStreams

NextQueryExt ==
    \/ \E t \in Queriers, q \in Queries : QLookup(t, q)
    \/ \E t \in Threads : QCover(t)
    \/ \E t \in Threads : QLoad(t)
    \/ \E t \in Threads : LoadExists(t)
    \/ \E t \in Threads : LoadRead(t)
    \/ \E t \in Threads : LoadTouch(t)
    \/ \E t \in Threads, m \in 0..1 : QDisk(t, m)
    \/ \E t \in Threads : QDiskRaise(t)
    \/ \E t \in Threads : QRemoteEmpty(t)
    \/ \E t \in Threads : QRemoteNoGeometry(t)
    \/ \E t \in Threads : QRemoteError(t)
    \/ \E t \in Threads, n \in FetchedRows, m \in 0..1 : QRemoteRows(t, n, m)
    \/ \E id \in Ids, b \in ExternalBoxes, n \in ExternalRows : ExternalCacheArea(id, b, n)
    \/ \E id \in Ids : ExternalDeleteArea(id)
    \/ Tick

SpecQueryExt == InitQueryExt /\ [][NextQueryExt]_vars

(***************************************************************************)
(* The memory cache under concurrent queries: SpecRace follows the         *)
(* statements of _fetch_and_filter_buildings that read or change           *)
(* _query_cache, one dict operation a step (the interpreter runs each of   *)
(* them whole, and may switch threads between any two); the store and      *)
(* remote tiers between them are one step that gives the result.  Queries  *)
(* run on the workers of the pool (main.py 88-90) and no lock is taken.    *)
(* The cache starts full, with the entry of the first query the oldest.    *)
(***************************************************************************)

\* a dict operation raises KeyError: the query fails (HTTP 500, main.py 91-92)
RaceFails(t) ==
    /\ th' = [th EXCEPT ![t] = Idle]
    /\ ret' = [Ret0 EXCEPT !.op = "query", !.key = th[t].key, !.q = th[t].q,
                           !.ok = FALSE, !.err = "KeyError"]
    /\ qcache' = qcache

\* line 86: if cache_key in _query_cache
RaceIn(t, q) ==
    /\ th[t].pc = "idle"
    /\ th' = [th EXCEPT ![t] =
                [Idle EXCEPT !.op = "query", !.key = GetCacheKey(q), !.q = q,
                             !.pc = IF KeyPos(qcache, GetCacheKey(q), 1) # 0
                                   THEN "m_get" ELSE "m_compute"]]
    /\ UNCHANGED <<index, index_mtime, disk, files, now, ret, qcache,
                   task_progress, written, streams>>

\* lines 87-90: cached_gdf, cached_time = _query_cache[cache_key]; the hit
RaceGet(t) ==
    /\ th[t].pc = "m_get"
    /\ LET i == KeyPos(qcache, th[t].key, 1) IN
         IF i = 0 THEN RaceFails(t)
         ELSE IF Live(qcache[i])
         THEN /\ th' = [th EXCEPT ![t] = Idle]
              /\ ret' = [Ret0 EXCEPT !.op = "query", !.key = th[t].key,
                                     !.q = th[t].q, !.tier = "memory",
                                     !.rows = qcache[i].gdf]
              /\ qcache' = qcache
         ELSE /\ th' = [th EXCEPT ![t].pc = "m_del"]
              /\ UNCHANGED <<ret, qcache>>
    /\ UNCHANGED <<index, index_mtime, disk, files, now, task_progress, written, streams>>

\* line 91: del _query_cache[cache_key]
RaceDel(t) ==
    /\ th[t].pc = "m_del"
    /\ LET i == KeyPos(qcache, th[t].key, 1) IN
         IF i = 0 THEN RaceFails(t)
         ELSE /\ qcache' = SeqRemove(qcache, i)
              /\ th' = [th EXCEPT ![t].pc = "m_compute"]
              /\ ret' = ret
    /\ UNCHANGED <<index, index_mtime, disk, files, now, task_progress, written, streams>>

\* lines 93-181: the store and remote tiers: rows (to be cached after the
\* eviction check), an empty result (cached as it is, lines 147-150), or a
\* failed fetch (returned, not cached)
RaceCompute(t, outcome) ==
    /\ th[t].pc = "m_compute"
    /\ IF outcome = "error"
       THEN /\ th' = [th EXCEPT ![t] = Idle]
            /\ ret' = [Ret0 EXCEPT !.op = "query", !.key = th[t].key,
                                   !.q = th[t].q, !.tier = "remote",
                                   !.err = "RemoteError"]
       ELSE /\ th' = [th EXCEPT ![t].pc = IF outcome = "rows" THEN "m_len" ELSE "m_set",
                                ![t].rows = IF outcome = "rows" THEN 1 ELSE 0]
            /\ ret' = ret
    /\ UNCHANGED <<index, index_mtime, disk, files, now, qcache,
                   task_progress, written, streams>>

\* lines 128 and 184: if len(_query_cache) >= _CACHE_MAX_SIZE
RaceLen(t) ==
    /\ th[t].pc = "m_len"
    /\ th' = [th EXCEPT ![t].pc = IF Len(qcache) >= CACHE_MAX_SIZE
                                  THEN "m_min" ELSE "m_set"]
    /\ UNCHANGED <<index, index_mtime, disk, files, now, ret, qcache,
                   task_progress, written, streams>>

\* lines 129 and 185: oldest = min(_query_cache, key=...)
RaceMin(t) ==
    /\ th[t].pc = "m_min"
    /\ qcache # <<>>
    /\ th' = [th EXCEPT ![t].pc = "m_evict",
                        ![t].oldest = qcache[OldestPos(qcache)].key]
    /\ UNCHANGED <<index, index_mtime, disk, files, now, ret, qcache,
                   task_progress, written, streams>>

\* lines 130 and 186: del _query_cache[oldest]
RaceEvict(t) ==
    /\ th[t].pc = "m_evict"
    /\ LET i == KeyPos(qcache, th[t].oldest, 1) IN
         IF i = 0 THEN RaceFails(t)
         ELSE /\ qcache' = SeqRemove(qcache, i)
              /\ th' = [th EXCEPT ![t].pc = "m_set"]
              /\ ret' = ret
    /\ UNCHANGED <<index, index_mtime, disk, files, now, task_progress, written, streams>>

\* lines 131-132, 149-150 and 187-189: the insert and the return
RaceSet(t) ==
    /\ th[t].pc = "m_set"
    /\ qcache' = CacheSet(qcache, th[t].key, th[t].rows)
    /\ th' = [th EXCEPT ![t] = Idle]
    /\ ret' = [Ret0 EXCEPT !.op = "query", !.key = th[t].key, !.q = th[t].q,
                           !.tier = "remote", !.rows = th[t].rows]
    /\ UNCHANGED <<index, index_mtime, disk, files, now, task_progress, written, streams>>

\* the queries of SpecRace: one whose key is cached, one whose key is not
RaceQueries ==
    { [lat |-> 4000000, lon |-> 4000000, rad |-> 100000],
      [lat |-> 4000000, lon |-> 8000000, rad |-> 100000] }

\* a full memory cache: Prefilled and the entry of the first query, cached
\* at time 0
FullCache ==
    Append(Prefilled,
           [key |-> GetCacheKey([lat |-> 4000000, lon |-> 4000000, rad |-> 100000]),
            gdf |-> 1, time |-> 0])

InitRace ==
    /\ index = <<>>
    /\ index_mtime = 0
    /\ disk = [exists |-> FALSE, areas |-> <<>>, mtime |-> 0, whole |-> TRUE]
    /\ files = [f \in Ids |-> 0]
    /\ now = 1
    /\ th = [t \in Threads |-> Idle]
    /\ ret = Ret0
    /\ qcache = FullCache
    /\ task_progress = NoTasks
    /\ written = NoWrites
    /\ streams = NoStreams

NextRace ==
    \/ \E t \in Threads, q \in RaceQueries : RaceIn(t, q)
    \/ \E t \in Threads : RaceGet(t)
    \/ \E t \in Threads : RaceDel(t)
    \/ \E t \in Threads, o \in {"rows", "empty", "error"} : RaceCompute(t, o)
    \/ \E t \in Threads : RaceLen(t)
    \/ \E t \in Threads : RaceMin(t)
    \/ \E t \in Threads : RaceEvict(t)
    \/ \E t \in Threads : RaceSet(t)
    \/ QTick

SpecRace == InitRace /\ [][NextRace]_vars

(***************************************************************************)
(* Loads beside a second process that only adds: SpecTouch is the process  *)
(* with one cached area, loading and reading, while another process caches *)
(* areas under ids that are not in use.  No entry is ever deleted.         *)
(***************************************************************************)

\* cache_area in another process, which draws an id that no entry has
ExternalAddNew(id, bbox, n) ==
    /\ \A i \in 1..Len(disk.areas) : disk.areas[i].id # id
    /\ ExternalCacheArea(id, bbox, n)

NextTouch ==
    \/ GetCachedAreas
    \/ \E q \in QueryBoxes : FindCoveringCache(q)
    \/ \E t \in Loaders, id \in Ids : LoadLookup(t, id)
    \/ \E t \in Threads : LoadExists(t)
    \/ \E t \in Threads : LoadRead(t)
    \/ \E t \in Threads : LoadTouch(t)
    \/ \E id \in Ids, b \in ExternalBoxes, n \in ExternalRows : ExternalAddNew(id, b, n)
    \/ Tick

SpecTouch == InitQueryExt /\ [][NextTouch]_vars

(***************************************************************************)
(* Queries over a fixed world: SpecAdvisory is the querying process with   *)
(* the remote source and the store held as they are.  The remote source    *)
(* holds the buildings of Buildings, the one cached area holds those of    *)
(* them inside its bbox, no fetch fails and nothing is cached or deleted.  *)
(* A building is a point; the buildings lie on the meridian or the         *)
(* parallel of the query centres they are near, and more than any radius   *)
(* away from the other centres, so that for every query and building the   *)
(* sum of the two coordinate differences is the distance or is, like the   *)
(* distance, more than the radius.                                         *)
(***************************************************************************)

Buildings ==
    { [lat |-> 4089935, lon |-> 4000000],
      [lat |-> 4000000, lon |-> 8000010] }

\* line 144: the records the remote source returns for the bbox of q
InsideBox(q) ==
    {b \in Buildings : /\ Abs(b.lat - q.lat) <= AngularDistance(q.rad)
                       /\ Abs(b.lon - q.lon) <= AngularDistance(q.rad)}

\* lines 118-123 and 170-181: the buildings that intersect the circle of
\* radius_meters around (lon, lat)
Within(q) ==
    {b \in Buildings :
        Abs(b.lat - q.lat) + Abs(b.lon - q.lon) <= AngularDistance(q.rad)}

\* the dataset of a cached area: the buildings inside its bbox
Stored(area) ==
    {b \in Buildings : /\ area.bbox[1] * CELL <= b.lon /\ b.lon <= area.bbox[3] * CELL
                       /\ area.bbox[2] * CELL <= b.lat /\ b.lat <= area.bbox[4] * CELL}

\* the disk tier over the world: the loaded dataset filtered to the circle
QDiskWorld(t) ==
    QDisk(t, Cardinality(Stored(CachedArea) \cap Within(th[t].q)))

\* the remote tier over the world: the records of the bbox, filtered
QRemoteWorld(t) ==
    IF InsideBox(th[t].q) = {}
    THEN QRemoteEmpty(t)
    ELSE QRemoteRows(t, Cardinality(InsideBox(th[t].q)), Cardinality(Within(th[t].q)))

\* the queries of SpecMemo and one of a place without buildings
WorldQueries == Queries \cup {[lat |-> 4000000, lon |-> 12000000, rad |-> 100000]}

InitAdvisory ==
    /\ index = <<CachedArea>>
    /\ index_mtime = 1
    /\ disk = [exists |-> TRUE, areas |-> index, mtime |-> 1, whole |-> TRUE]
    /\ files = [f \in Ids |-> IF f = "a" THEN Cardinality(Stored(CachedArea)) ELSE 0]
    /\ now = 1
    /\ th = [t \in Threads |-> Idle]
    /\ ret = Ret0
    /\ qcache = <<>>
    /\ task_progress = NoTasks
    /\ written = NoWrites
    /\ streams = NoStreams

NextAdvisory ==
    \/ \E t \in Queriers, q \in WorldQueries : QLookup(t, q)
    \/ \E t \in Threads : QCover(t)
    \/ \E t \in Threads : QLoad(t)
    \/ \E t \in Threads : LoadExists(t)
    \/ \E t \in Threads : LoadRead(t)
    \/ \E t \in Threads : LoadTouch(t)
    \/ \E t \in Threads : QDiskWorld(t)
    \/ \E t \in Threads : QRemoteWorld(t)
    \/ QTick

SpecAdvisory == InitAdvisory /\ [][NextAdvisory]_vars

(***************************************************************************)
(* Caching tasks: SpecTask is the process accepting caching requests,      *)
(* running them on a worker and deleting areas.  A request is for a        *)
(* bbox of no width (0 km2, so 500 expected buildings), of one cell, or of *)
(* two cells (over the limit); a download has 1 or 600 rows.               *)
(***************************************************************************)

TaskBoxes == {<<0, 0, 0, 1>>, <<0, 0, 1, 1>>, <<0, 0, 2, 1>>}

TaskRows == {1, 600}

NextTask ==
    \/ \E t \in Cachers, b \in TaskBoxes, tid \in TaskIds : StartCache(t, b, tid)
    \/ \E t \in Threads, id \in Ids : TaskRun(t, id)
    \/ \E t \in Threads : CacheEmpty(t)
    \/ \E t \in Threads : CacheNoGeometry(t)
    \/ \E t \in Threads : CacheRemoteError(t)
    \/ \E t \in Threads, n \in TaskRows, left \in {0, Unreadable} :
          CacheWriteError(t, n, left)
    \/ \E t \in Threads, n \in TaskRows : CacheSave(t, n)
    \/ \E t \in Threads : CacheCommit(t)
    \/ \E id \in Ids : DeleteArea(id)

SpecTask == Init /\ [][NextTask]_vars

(***************************************************************************)
(* Progress streams: SpecStream is the process accepting caching requests  *)
(* for one cell, running them on a worker, while a client opens progress   *)
(* streams for any task id.  SpecStreamFair adds what the claim of         *)
(* termination assumes: a worker that has work to do is scheduled, and the *)
(* remote record stream ends (every step of cache_area is one the worker   *)
(* takes).  Nothing is assumed of the streams.                             *)
(***************************************************************************)

StreamBoxes == {<<0, 0, 1, 1>>, <<0, 0, 2, 1>>}

StreamRows == {1}

\* the steps of a worker running a task
WorkerStep ==
    \/ \E t \in Threads, id \in Ids : TaskRun(t, id)
    \/ \E t \in Threads : CacheEmpty(t)
    \/ \E t \in Threads : CacheNoGeometry(t)
    \/ \E t \in Threads : CacheRemoteError(t)
    \/ \E t \in Threads, n \in StreamRows : CacheWriteError(t, n, 0)
    \/ \E t \in Threads, n \in StreamRows : CacheSave(t, n)
    \/ \E t \in Threads : CacheCommit(t)

NextStream ==
    \/ \E t \in Cachers, b \in StreamBoxes, tid \in TaskIds : StartCache(t, b, tid)
    \/ WorkerStep
    \/ \E p \in Pollers, tid \in TaskIds : OpenStream(p, tid)
    \/ \E p \in Pollers : StreamPoll(p)
    \/ \E p \in Pollers : StreamTimeout(p)
    \/ \E p \in Pollers : StreamEnd(p)

SpecStream == Init /\ [][NextStream]_vars

SpecStreamFair == SpecStream /\ WF_vars(WorkerStep)

(***************************************************************************)
(* Registration and completion: SpecRegister is SpecTask with the end of   *)
(* cache_area in the two steps other threads can come between, the locked  *)
(* registration and the return to _run, beside listings, deletes and       *)
(* clears of the same process.                                             *)
(***************************************************************************)

RegisterBoxes == {<<0, 0, 1, 1>>}

NextRegister ==
    \/ \E t \in Cachers, b \in RegisterBoxes, tid \in TaskIds : StartCache(t, b, tid)
    \/ \E t \in Threads, id \in Ids : TaskRun(t, id)
    \/ \E t \in Threads : CacheEmpty(t)
    \/ \E t \in Threads : CacheRemoteError(t)
    \/ \E t \in Threads, n \in StreamRows : CacheSave(t, n)
    \/ \E t \in Threads : CacheRegister(t)
    \/ \E t \in Threads : CacheDone(t)
    \/ GetCachedAreas
    \/ \E id \in Ids : DeleteArea(id)
    \/ ClearAll
    \/ Tick

SpecRegister == Init /\ [][NextRegister]_vars

(***************************************************************************)
(* Failing tasks: SpecFail is the process on an empty cache directory in   *)
(* which every caching task ends in error, at the download, the            *)
(* conversion, the write of the data file or the write of the index.       *)
(***************************************************************************)

NextFail ==
    \/ \E t \in Cachers, b \in RegisterBoxes, tid \in TaskIds : StartCache(t, b, tid)
    \/ \E t \in Threads, id \in Ids : TaskRun(t, id)
    \/ \E t \in Threads : CacheRemoteError(t)
    \/ \E t \in Threads, n \in StreamRows : CacheConvertError(t, n)
    \/ \E t \in Threads, n \in StreamRows, left \in {0, Unreadable} :
          CacheWriteError(t, n, left)
    \/ \E t \in Threads, n \in StreamRows : CacheSave(t, n)
    \/ \E t \in Threads, opened \in BOOLEAN : CacheIndexError(t, opened)
    \/ Tick

SpecFail == Init /\ [][NextFail]_vars

(***************************************************************************)
(* Stops of the process: SpecCrash follows _save_index statement by        *)
(* statement inside the locked sections of cache_area and delete_area:     *)
(* open(p, "w") empties the file, json.dump and the end of the with block  *)
(* write the document, p.stat() is recorded.  The process can stop in any  *)
(* state (a kill, a power loss); what is in memory is lost, the directory  *)
(* stays.  A start is CacheManager(), made when main.py is imported.       *)
(***************************************************************************)

\* self._lock is held: a thread is inside _save_index
Locked == \E t \in Threads : th[t].pc \in {"save_dump", "save_stat"}

\* cache_area lines 281-282 and _save_index line 78
RegisterOpen(t) ==
    /\ th[t].pc = "cache_commit"
    /\ ~Locked
    /\ index' = Append(index, AreaEntry(t))
    /\ disk' = Torn
    /\ th' = [th EXCEPT ![t].pc = "save_dump"]
    /\ UNCHANGED <<index_mtime, files, now, ret, qcache, task_progress, written,
                   streams>>

\* delete_area lines 293-299 and _save_index line 78, for an id in the index
DeleteOpen(t, id) ==
    LET pos == IdScan(index, id, 1) IN
    /\ th[t].pc = "idle"
    /\ ~Locked
    /\ pos # 0
    /\ files' = [files EXCEPT ![FilePath(index[pos])] = 0]
    /\ index' = SeqRemove(index, pos)
    /\ disk' = Torn
    /\ th' = [th EXCEPT ![t] = [Idle EXCEPT !.pc = "save_dump", !.op = "delete",
                                            !.id = id]]
    /\ UNCHANGED <<index_mtime, now, ret, qcache, task_progress, written, streams>>

\* _save_index line 79 and the end of the with block
SaveDump(t) ==
    /\ th[t].pc = "save_dump"
    /\ disk' = Saved(index)
    /\ th' = [th EXCEPT ![t].pc = "save_stat"]
    /\ UNCHANGED <<index, index_mtime, files, now, ret, qcache, task_progress,
                   written, streams>>

\* _save_index line 80, the end of the locked section and the return
SaveStat(t) ==
    /\ th[t].pc = "save_stat"
    /\ index_mtime' = disk.mtime
    /\ ret' = [Ret0 EXCEPT !.op = th[t].op, !.id = th[t].id, !.bbox = th[t].bbox]
    /\ th' = [th EXCEPT ![t] = Idle]
    /\ UNCHANGED <<index, disk, files, now, qcache, task_progress, written, streams>>

\* the process stops: its threads are gone (pc "down") and what was in
\* memory with them
Crash ==
    /\ \E t \in Threads : th[t].pc # "down"
    /\ th' = [t \in Threads |-> [Idle EXCEPT !.pc = "down"]]
    /\ index' = <<>>
    /\ index_mtime' = 0
    /\ qcache' = <<>>
    /\ task_progress' = NoTasks
    /\ UNCHANGED <<disk, files, now, ret, written, streams>>

\* lines 56-61 and 68-74: CacheManager(): _load_index reads the file if there
\* is one; json.load raises on a file that is not a complete document, and
\* the process does not start
Start ==
    /\ \A t \in Threads : th[t].pc = "down"
    /\ IF disk.exists /\ ~disk.whole
       THEN /\ ret' = [Ret0 EXCEPT !.op = "init", !.ok = FALSE,
                                   !.err = "JSONDecodeError"]
            /\ UNCHANGED <<index, index_mtime, th>>
       ELSE /\ index' = IF disk.exists THEN disk.areas ELSE <<>>
            /\ index_mtime' = IF disk.exists THEN disk.mtime ELSE 0
            /\ th' = [t \in Threads |-> Idle]
            /\ ret' = [Ret0 EXCEPT !.op = "init", !.areas = index']
    /\ UNCHANGED <<disk, files, now, qcache, task_progress, written, streams>>

NextCrash ==
    \/ \E t \in Cachers, b \in RegisterBoxes, id \in Ids : CacheStart(t, b, id)
    \/ \E t \in Threads, n \in StreamRows : CacheSave(t, n)
    \/ \E t \in Threads : RegisterOpen(t)
    \/ \E t \in Loaders, id \in Ids : DeleteOpen(t, id)
    \/ \E t \in Threads : SaveDump(t)
    \/ \E t \in Threads : SaveStat(t)
    \/ Crash
    \/ Start
    \/ Tick

SpecCrash == Init /\ [][NextCrash]_vars

(***************************************************************************)
(* The projection of the circular refinement: _get_utm_crs, applied to the *)
(* centres the query endpoints accept (main.py 72-73: lat in [-90, 90],    *)
(* lon in [-180, 180]).  Latitude and longitude are given in tenths of a   *)
(* degree; the value is the number of the EPSG code.                       *)
(***************************************************************************)

\* int(x) for x = n / m: the quotient cut towards zero
TruncDiv(n, m) == IF n >= 0 THEN n \div m ELSE 0 - ((0 - n) \div m)

\* lines 69-70: utm_zone = int((lon + 180) / 6) + 1; "EPSG:{32600 + utm_zone}"
\* if lat >= 0 else "EPSG:{32700 + utm_zone}"
GetUtmCrs(lat, lon) ==
    LET utm_zone == TruncDiv(lon + 1800, 60) + 1 IN
    IF lat >= 0 THEN 32600 + utm_zone ELSE 32700 + utm_zone

\* every longitude of [-180, 180] in tenths of a degree; latitudes at the
\* poles, at the equator and next to it
UtmLons == (0 - 1800)..1800

UtmLats == {0 - 900, 0 - 1, 0, 1, 900}

\* lines 111 and 171: utm_crs = _get_utm_crs(lat, lon), for the centre of a
\* query; the code's number is returned in rows
UtmCrs(lat, lon) ==
    /\ ret' = [Ret0 EXCEPT !.op = "utm_crs", !.rows = GetUtmCrs(lat, lon),
                           !.q = [lat |-> lat, lon |-> lon, rad |-> 0]]
    /\ UNCHANGED <<index, index_mtime, disk, files, now, th, qcache,
                   task_progress, written, streams>>

\* one call per run: the function has no state
NextUtm == \E lat \in UtmLats, lon \in UtmLons : FirstCall /\ UtmCrs(lat, lon)

SpecUtm == Init /\ [][NextUtm]_vars

(***************************************************************************)
(* Claims C1-C3: the lookups.                                              *)
(***************************************************************************)

Positions(areas) == 1..Len(areas)

SetMin(S) == CHOOSE x \in S : \A y \in S : x <= y

\* the claim's containment, edge by edge
ContainsOnAllEdges(A, q) ==
    /\ A[1] <= q[1]
    /\ A[2] <= q[2]
    /\ A[3] >= q[3]
    /\ A[4] >= q[4]

\* C1: find_covering_cache returns an area only if it is an indexed area whose
\* bbox contains the query bbox on all four edges, returns None only if no
\* indexed area does, and finds a stored area whose bbox equals the query.
C1_CoveringIffContained ==
    ret.op = "find_covering" =>
        /\ ret.areas # <<>> =>
              /\ \E i \in Positions(index) : index[i] = ret.areas[1]
              /\ ContainsOnAllEdges(ret.areas[1].bbox, ret.bbox)
        /\ ret.areas = <<>> =>
              \A i \in Positions(index) : ~ContainsOnAllEdges(index[i].bbox, ret.bbox)
        /\ (\E i \in Positions(index) : index[i].bbox = ret.bbox) => ret.areas # <<>>

\* a lookup with the bbox of the second of two stored areas found an area
C1_Witness ==
    /\ ret.op = "find_covering"
    /\ Len(index) = 2
    /\ index[2].bbox = ret.bbox
    /\ index[1].bbox # ret.bbox
    /\ ret.areas # <<>>

\* C2: when several indexed areas cover the query bbox, find_covering_cache
\* returns the earliest of them in index order, whatever their sizes, access
\* times and files.
C2_FirstMatchWins ==
    ret.op = "find_covering" =>
        LET S == {i \in Positions(index) : ContainsOnAllEdges(index[i].bbox, ret.bbox)}
        IN  S # {} => ret.areas = <<index[SetMin(S)]>>

\* two areas cover; the first, returned, is the larger one, was accessed
\* before the second and has no data file
C2_Witness ==
    /\ ret.op = "find_covering"
    /\ Len(index) = 2
    /\ ContainsOnAllEdges(index[1].bbox, ret.bbox)
    /\ ContainsOnAllEdges(index[2].bbox, ret.bbox)
    /\ AreaKm2(index[1].bbox) > AreaKm2(index[2].bbox)
    /\ index[1].la < index[2].la
    /\ files[FilePath(index[1])] = 0
    /\ ret.areas = <<index[1]>>

\* the claim's disjointness of two rectangles, axis by axis
DisjointOnAnAxis(A, q) ==
    \/ A[3] < q[1] \/ q[3] < A[1]
    \/ A[4] < q[2] \/ q[4] < A[2]

InResult(a, res) == \E k \in Positions(res) : res[k] = a

\* C3: find_overlapping returns exactly the indexed areas not disjoint from
\* the query bbox, in index order; and of two stored areas, each is in the
\* result for the other's bbox or neither is.
C3_OverlapExactSymmetric ==
    /\ ret.op = "find_overlapping" =>
          ret.areas = SelectSeq(index, LAMBDA a : ~DisjointOnAnAxis(a.bbox, ret.bbox))
    /\ \A i, j \in Positions(index) :
          InResult(index[j], OverlapScan(index, index[i].bbox, 1))
              <=> InResult(index[i], OverlapScan(index, index[j].bbox, 1))

\* a lookup returned an area that does not contain the query and left out
\* another; the two stored areas touch along an edge and find each other
C3_Witness ==
    /\ ret.op = "find_overlapping"
    /\ Len(index) = 2
    /\ Len(ret.areas) = 1
    /\ ~ContainsOnAllEdges(ret.areas[1].bbox, ret.bbox)
    /\ index[1].bbox[3] = index[2].bbox[1]
    /\ index[1].bbox # index[2].bbox
    /\ InResult(index[2], OverlapScan(index, index[1].bbox, 1))

(***************************************************************************)
(* Claims C4-C6: the memory cache.                                         *)
(***************************************************************************)

Keys(c) == {c[i].key : i \in Positions(c)}

AgeSeconds(e) == (now - e.time) * TickSeconds

\* C4: a lookup of a key cached at time T returns the cached dataset, and
\* leaves the cache as it is, while now - T is under 300 seconds; at 300
\* seconds or more it returns nothing, the item is gone from the cache and
\* the store has not been consulted yet (the query stands before the
\* covering lookup, the store and the remote source untouched).
C4_TtlLaw ==
    [][\A t \in Queriers, q \in Queries :
         LET i == KeyPos(qcache, GetCacheKey(q), 1) IN
         (i # 0 /\ QLookup(t, q)) =>
            IF AgeSeconds(qcache[i]) < 300
            THEN /\ ret'.op = "query" /\ ret'.tier = "memory"
                 /\ ret'.rows = qcache[i].gdf
                 /\ qcache' = qcache
                 /\ th'[t].pc = "idle"
            ELSE /\ KeyPos(qcache', GetCacheKey(q), 1) = 0
                 /\ Len(qcache') = Len(qcache) - 1
                 /\ th'[t].pc = "q_cover"
                 /\ ret' = ret
                 /\ store' = store]_vars

\* a hit at the age of one tick (150 s) has been returned, an item has
\* expired at a later lookup, and the query that found it expired is about
\* to consult the store
C4_Witness ==
    /\ ret.op = "query" /\ ret.tier = "memory"
    /\ \E i \in Positions(qcache) : qcache[i].key = ret.key /\ qcache[i].time < now
    /\ \E t \in Queriers : th[t].pc = "q_cover" /\ th[t].miss = "expired"

\* C5: the memory cache never holds more than 50 items.
C5_AtMostMaxEntries == Len(qcache) <= 50

\* C6: a step that adds a new key to a cache of 50 items leaves 50 items:
\* the new key is in, and exactly one item is gone, one with the least
\* insertion time.
C6_CapacityLaw ==
    [][(Len(qcache) = 50 /\ Keys(qcache') \ Keys(qcache) # {}) =>
         /\ Len(qcache') = 50
         /\ Cardinality(Keys(qcache') \ Keys(qcache)) = 1
         /\ \E i \in Positions(qcache) :
               /\ \A j \in Positions(qcache) : qcache[i].time <= qcache[j].time
               /\ Keys(qcache) \ Keys(qcache') = {qcache[i].key}]_vars

(***************************************************************************)
(* Claims C11-C15: caching tasks.                                          *)
(***************************************************************************)

\* C11: start_cache for a bbox of more than 10,000 km2 is rejected and
\* changes nothing: no record in the task registry, no task written or
\* submitted to a worker, the store as it was.
C11_TooLargeRejected ==
    [][\A t \in Threads, b \in TaskBoxes, tid \in TaskIds :
          (StartCache(t, b, tid) /\ AreaKm2(b) > 10000) =>
             /\ ~ret'.ok
             /\ UNCHANGED <<task_progress, written, th, store>>]_vars

\* a request over the limit has been rejected in a process that holds the
\* record of an earlier task and one cached area
C11_Witness ==
    /\ ret.op = "start_cache" /\ ~ret.ok /\ AreaKm2(ret.bbox) > 10000
    /\ \E i \in TaskIds : task_progress[i].status = "complete"
    /\ Len(index) = 1

\* C12: the statuses a task writes are queued, then running one or more
\* times, then complete or error once: queued is first and only first, a
\* terminal status comes right after a running one and is the last, and a
\* task that has written it writes nothing more.
C12_StatusOrder ==
    [][\A t \in Threads :
          LET w == written'[t] IN
          /\ w # <<>> => w[1].status = "queued"
          /\ \A i \in 2..Len(w) :
                /\ w[i].status \in {"running", "complete", "error"}
                /\ IsTerminal(w[i]) => (i = Len(w) /\ w[i - 1].status = "running")
          /\ (written[t] # <<>> /\ IsTerminal(Last(written[t]))) =>
                (w = written[t] \/ w = <<Queued>>)]_vars

\* one task has ended complete and another in error
C12_Witness ==
    \E i, j \in TaskIds :
        /\ task_progress[i].status = "complete"
        /\ task_progress[j].status = "error"

\* C13 as stated: the progress values a task writes are within 0..100 and
\* never decrease, from the queued record to the terminal one.
C13_ProgressNeverDecreases ==
    \A t \in Threads : \A i, j \in 1..Len(written[t]) :
        /\ written[t][i].progress \in 0..100
        /\ i <= j => written[t][i].progress <= written[t][j].progress

\* C13 amended: the progress values a task writes are within 0..100 and
\* never decrease from the queued record through the running records to a
\* complete record; an error record carries progress 0.
C13_ProgressNeverDecreasesUntilError ==
    \A t \in Threads : \A i, j \in 1..Len(written[t]) :
        /\ written[t][i].progress \in 0..100
        /\ (i <= j /\ written[t][j].status # "error") =>
              written[t][i].progress <= written[t][j].progress
        /\ written[t][i].status = "error" => written[t][i].progress = 0

\* a task has reported the capped download percentage 70 and has completed
C13_Witness ==
    \E t \in Threads :
        /\ written[t] # <<>> /\ Last(written[t]).status = "complete"
        /\ \E i \in 1..Len(written[t]) : written[t][i].progress = 70

\* C14: when the download of a task yields no rows, the record of the task
\* becomes complete with progress 100, no area and a message.
C14_EmptyDownloadCompletes ==
    [][\A t \in Threads :
          (CacheEmpty(t) /\ th[t].op = "task") =>
             LET r == task_progress'[th[t].tid] IN
             /\ r.status = "complete" /\ r.progress = 100
             /\ r.area = <<>> /\ r.message \notin {"", "-"}
             /\ Last(written'[t]) = r]_vars

\* a task has completed without an area
C14_Witness ==
    \E t \in Threads :
        /\ written[t] # <<>> /\ Last(written[t]).status = "complete"
        /\ Last(written[t]).area = <<>>
        /\ Last(written[t]).message = "No buildings found in this area."

\* C15: when cache_area raises under a task (the remote source, the write
\* of the data file), the task's record becomes error with the exception's
\* message, nothing is returned or raised to a caller, and the worker is
\* done: a task calls cache_area only when it leaves the queue, once.
C15_FailureBecomesErrorRecord ==
    [][\A t \in Threads :
          /\ (th[t].op = "task" /\
                 (\/ CacheRemoteError(t)
                  \/ \E n \in TaskRows, left \in {0, Unreadable} :
                        CacheWriteError(t, n, left)
                  \/ \E id \in Ids : TaskRun(t, id) /\ AreaKm2(th[t].bbox) > 10000)) =>
                /\ task_progress'[th[t].tid].status = "error"
                /\ task_progress'[th[t].tid].message \in {"RemoteError", "OSError", "ValueError"}
                /\ Last(written'[t]) = task_progress'[th[t].tid]
                /\ ret' = ret
                /\ th'[t].pc = "idle"
          /\ (th'[t].pc = "task_queued" /\ th[t].pc # "task_queued") =>
                (th[t].pc = "idle" /\ ret'.op = "start_cache")]_vars

\* tasks have ended in error for a remote failure and for a write failure
C15_Witness ==
    \E i, j \in TaskIds :
        /\ task_progress[i].status = "error"
        /\ task_progress[i].message = "RemoteError"
        /\ task_progress[j].status = "error"
        /\ task_progress[j].message = "OSError"

(***************************************************************************)
(* Claims C16-C20: the tiers of a query.                                   *)
(***************************************************************************)

StoreMisses == {"store-nocover", "store-none", "store-raise"}

\* C16: a query that returns has consulted the memory cache alone when it
\* hit there; the memory cache and then the store when a covering area's
\* dataset loaded with rows; and the remote source only after a miss in
\* memory and a miss or failure of the store.  A memory hit leaves the
\* store and the querying thread as they were.
C16_TierOrder ==
    [][/\ ret'.op = "query" =>
            \/ ret'.tier = "memory" /\ ret'.trail = <<"memory-hit">>
            \/ ret'.tier = "disk" /\ ret'.trail = <<"memory-miss", "store-hit">>
            \/ /\ ret'.tier = "remote"
               /\ \E x \in StoreMisses : ret'.trail = <<"memory-miss", x, "remote">>
       /\ (ret' # ret /\ ret'.op = "query" /\ ret'.tier = "memory") =>
            (store' = store /\ th' = th)]_vars

\* a query has been answered from a covering area's dataset
C16_Witness ==
    /\ ret.op = "query" /\ ret.tier = "disk"
    /\ ret.trail = <<"memory-miss", "store-hit">>
    /\ \E i \in Positions(qcache) : qcache[i].key = ret.key

\* a step of a query: a thread running one moves, or one returns
QueryStep ==
    \/ \E t \in Threads :
          /\ th[t].op = "query" \/ th'[t].op = "query"
          /\ th'[t].pc # th[t].pc
    \/ ret' # ret /\ ret'.op = "query"

\* the entries of an index apart from their last_accessed
Entries(areas) == {[areas[i] EXCEPT !.la = 0] : i \in 1..Len(areas)}

\* C17: no step of a query changes a data file, and none changes the
\* entries of the index file other than in their last_accessed.
C17_QueryKeepsStoreEntries ==
    [][QueryStep =>
         /\ files' = files
         /\ Len(disk'.areas) = Len(disk.areas)
         /\ Entries(disk'.areas) = Entries(disk.areas)]_vars

\* the positions of a query inside the store tier
StorePcs == {"q_cover", "q_load", "load_exists", "load_read", "load_touch", "q_disk"}

GoesRemote(t) == th'[t].pc = "q_remote" /\ ret' = ret

\* C18: a query leaves the store tier either with the answer of a loaded
\* dataset or for the remote fetch, never as a failure; when the covering
\* entry is gone from the index, or its file is missing or unreadable, it
\* goes on to the remote fetch; and the query returns what the remote fetch
\* gives.
C18_StoreFailureFallsThrough ==
    [][\A t \in Threads : th[t].op = "query" =>
          /\ (th[t].pc \in StorePcs /\ th'[t].pc \notin StorePcs) =>
                \/ GoesRemote(t)
                \/ /\ th'[t].pc = "idle"
                   /\ ret'.op = "query" /\ ret'.ok /\ ret'.tier = "disk"
          /\ (QLoad(t) /\ \A i \in 1..Len(index) : index[i].id # th[t].id) =>
                GoesRemote(t)
          /\ (LoadExists(t) /\ files[th[t].id] = 0) => GoesRemote(t)
          /\ (LoadRead(t) /\ files[th[t].id] <= 0) => GoesRemote(t)
          /\ (th[t].pc = "q_remote" /\ th'[t].pc # "q_remote") =>
                /\ th'[t].pc = "idle"
                /\ ret'.op = "query" /\ ret'.ok /\ ret'.tier = "remote"]_vars

\* a query whose covering area's file could not be read has returned the
\* rows of the remote fetch
C18_Witness ==
    /\ ret.op = "query" /\ ret.tier = "remote" /\ ret.rows > 0
    /\ ret.trail = <<"memory-miss", "store-raise", "remote">>

\* C19: a query whose remote fetch failed does not return a result: it
\* fails.
C19_RemoteFailureSurfaces ==
    (ret.op = "query" /\ ret.err = "RemoteError") => ~ret.ok

\* C20: whatever the memory cache holds, a query returns the buildings the
\* store and the remote source give for its circle (stated on their number:
\* equal sets have equal numbers).
C20_MemoryCacheIsAdvisory ==
    ret.op = "query" => ret.rows = Cardinality(Within(ret.q))

(***************************************************************************)
(* Claims C23-C27, C30: the operations of the store.                       *)
(***************************************************************************)

\* load_geodataframe returns None in this step
LoadReturnsNone ==
    /\ ret'.op = "load" /\ ~ret'.ok /\ ret'.err = "-"
    /\ \/ ret' # ret
       \/ \E t \in Threads : th[t].op = "load" /\ th'[t].op # "load"

\* C23: load_geodataframe(id) returns None for an id that is not in the
\* index and for an entry whose file is missing, and the step in which it
\* does leaves the index, the index file and the data files as they were.
C23_LoadNoneLeavesIndex ==
    [][/\ LoadReturnsNone => (index' = index /\ disk' = disk /\ files' = files)
       /\ \A t \in Threads :
            (th[t].op = "load" /\ LoadExists(t) /\ files[th[t].id] = 0) =>
                LoadReturnsNone
       /\ \A t \in Threads, id \in Ids :
            (LoadLookup(t, id) /\ \A i \in 1..Len(index) : index[i].id # id) =>
                (ret'.op = "load" /\ ret'.id = id /\ ~ret'.ok /\ ret'.err = "-")]_vars

\* None has been returned for an entry whose file is missing, and the
\* entry is still in the index
C23_Witness ==
    /\ ret.op = "load" /\ ~ret.ok /\ ret.err = "-"
    /\ files[ret.id] = 0
    /\ \E i \in 1..Len(index) : index[i].id = ret.id
    /\ disk.areas = index

\* some entry of areas with this id was accessed at or after time t0, or
\* no entry has the id
Touched(areas, id, t0) ==
    (\E i \in 1..Len(areas) : areas[i].id = id) =>
        \E i \in 1..Len(areas) : areas[i].id = id /\ areas[i].la >= t0

\* C24: when load_geodataframe(id) returns a dataset, the entry with that
\* id, if the index has one, carries in the in-memory index and in the
\* index file a last_accessed no earlier than the start of the load.
C24_LoadBumpsLastAccessed ==
    [][\A t \in Threads :
          (th[t].op = "load" /\ th[t].pc = "load_touch" /\ th'[t].pc # "load_touch") =>
              /\ Touched(index', th[t].id, th[t].t0)
              /\ Touched(disk'.areas, th[t].id, th[t].t0)]_vars

\* C25: delete_area(id) returns True exactly when the index has an entry
\* with the id; it then removes that entry and the entry's file in the same
\* step, in memory and in the index file, also when the file was missing
\* already, and leaves the other entries and data files as they were; for an
\* id without an entry it changes nothing.
C25_DeleteRemovesEntryAndFile ==
    [][\A id \in Ids : DeleteArea(id) =>
          LET present == \E i \in 1..Len(index) : index[i].id = id IN
          /\ ret'.op = "delete" /\ ret'.id = id /\ ret'.ok = present
          /\ present =>
                /\ \E pos \in 1..Len(index) :
                      index[pos].id = id /\ index' = SeqRemove(index, pos)
                /\ files' = [files EXCEPT ![id] = 0]
                /\ disk'.exists /\ disk'.areas = index'
          /\ ~present => store' = store]_vars

\* an entry whose file was missing has been deleted, and another entry and
\* its file are still there
C25_Witness ==
    /\ ret.op = "delete" /\ ret.ok
    /\ files[ret.id] = 0
    /\ Len(index) = 1 /\ index[1].id # ret.id /\ files[index[1].id] > 0
    /\ disk.areas = index

\* C26: clear_all returns the number of entries the index had, and leaves
\* the in-memory index and the index file empty and no data file of the
\* entries it removed.
C26_ClearAllEmptiesStore ==
    [][ClearAll =>
          /\ ret'.op = "clear" /\ ret'.rows = Len(index)
          /\ index' = <<>>
          /\ disk'.exists /\ disk'.areas = <<>>
          /\ \A i \in 1..Len(index) : files'[FilePath(index[i])] = 0
          /\ \A f \in Ids : files'[f] # files[f] =>
                \E i \in 1..Len(index) : FilePath(index[i]) = f]_vars

\* clear_all has returned the count of a full store
C26_Witness ==
    /\ ret.op = "clear" /\ ret.rows = MaxAreas
    /\ index = <<>> /\ disk.areas = <<>>
    /\ \A f \in Ids : files[f] = 0

C30_LoadNeverRaises ==
    ret.op = "load" => ret.err = "-"

\* C28: no query fails on a dict operation of the memory cache because
\* another query has changed the cache.
C28_CacheMutationsSerialized ==
    ret.op = "query" => ret.err # "KeyError"

(***************************************************************************)
(* Claims C21, C22, C29: progress streams and the end of tasks.            *)
(***************************************************************************)

\* the record of the task id a stream is for
Polled(p) == task_progress[streams[p].tid]

\* a step of an open stream
StreamStep(p) == streams[p].pc = "poll" /\ streams'[p] # streams[p]

\* what a stream emits: the record of its task id as it is when read, never
\* the record emitted just before; a terminal record only as the last one,
\* after which the stream ends; and for a task id without a record the
\* answer is not-found, with nothing emitted
EmitsInOrder(p) ==
    /\ (StreamStep(p) /\ streams'[p].sent # streams[p].sent) =>
          /\ Polled(p) # NoRecord
          /\ streams'[p].sent = Append(streams[p].sent, Polled(p))
          /\ streams[p].sent # <<>> => Last(streams[p].sent) # Polled(p)
    /\ \A i \in 1..(Len(streams'[p].sent) - 1) : ~IsTerminal(streams'[p].sent[i])
    /\ (streams'[p].sent # <<>> /\ IsTerminal(Last(streams'[p].sent))) =>
          streams'[p].pc \in {"grace", "ended"}
    /\ streams[p].pc = "grace" =>
          \/ streams'[p] = streams[p]
          \/ streams'[p] = [streams[p] EXCEPT !.pc = "ended"]
    /\ (streams[p].pc \in {"closed", "ended"} /\ streams'[p] # streams[p]) =>
          /\ streams'[p].sent = <<>>
          /\ streams'[p].found = (task_progress[streams'[p].tid] # NoRecord)
          /\ streams'[p].pc = IF streams'[p].found THEN "poll" ELSE "closed"

\* C21 as stated: a stream emits in order, and when it ends while the record
\* of its task is a terminal one, that record is the last it emitted.
C21_StreamEndsWithTerminal ==
    [][\A p \in Pollers :
          /\ EmitsInOrder(p)
          /\ (streams[p].pc \in {"poll", "grace"} /\ streams'[p].pc = "ended"
                /\ IsTerminal(Polled(p))) =>
                (streams[p].sent # <<>> /\ Last(streams[p].sent) = Polled(p))]_vars

\* C21, amended: a stream emits in order, and when one of its reads before
\* the deadline finds a terminal record, that record is emitted, is the
\* last one emitted, and the stream ends.
C21_StreamInOrder ==
    [][\A p \in Pollers :
          /\ EmitsInOrder(p)
          /\ (StreamStep(p) /\ streams'[p].waits # streams[p].waits
                /\ IsTerminal(Polled(p))) =>
                /\ Last(streams'[p].sent) = Polled(p)
                /\ streams'[p].pc = "grace"]_vars

\* a stream has emitted a task's records up to the terminal one and ended
C21_Witness ==
    \E p \in Pollers :
        /\ streams[p].pc = "ended"
        /\ Len(streams[p].sent) >= 2
        /\ streams[p].sent[1].status = "queued"
        /\ IsTerminal(Last(streams[p].sent))

\* C22: a record of the task registry is never removed; a stream opened for
\* a task id whose record is terminal finds it, and its first read of a
\* terminal record emits that record, alone, and the stream ends.
C22_TerminalStaysObservable ==
    [][/\ \A tid \in TaskIds :
            task_progress[tid] # NoRecord => task_progress'[tid] # NoRecord
       /\ \A p \in Pollers :
            /\ (streams[p].pc \in {"closed", "ended"} /\ streams'[p] # streams[p]
                  /\ IsTerminal(task_progress[streams'[p].tid])) =>
                  (streams'[p].found /\ streams'[p].pc = "poll")
            /\ (StreamStep(p) /\ streams[p].sent = <<>> /\ IsTerminal(Polled(p))) =>
                  /\ streams'[p].sent = <<Polled(p)>>
                  /\ streams'[p].pc = "grace"
            /\ (streams[p].pc = "grace" /\ streams'[p] # streams[p]) =>
                  /\ streams'[p].pc = "ended"
                  /\ streams'[p].sent = streams[p].sent]_vars

\* a stream opened after the end of a task has emitted the terminal record
\* alone and ended, and the record is still in the registry
C22_Witness ==
    \E p \in Pollers :
        /\ streams[p].pc = "ended"
        /\ streams[p].waits = 1
        /\ Len(streams[p].sent) = 1
        /\ IsTerminal(streams[p].sent[1])
        /\ Polled(p) = streams[p].sent[1]

\* the worker t has a task accepted by start_cache that is not over
TaskPending(t) == th[t].op = "task"

\* the task of worker t has written its terminal record
TaskEnded(t) ==
    /\ th[t].op # "task"
    /\ written[t] # <<>> /\ IsTerminal(Last(written[t]))

\* C29: a task leaves its worker only by writing its terminal record,
\* whatever the streams do, and under the fairness of SpecStreamFair every
\* accepted task does so.
C29_TaskTerminates ==
    /\ [][\A t \in Threads :
             (TaskPending(t) /\ ~TaskPending(t)') => TaskEnded(t)']_vars
    /\ \A t \in Threads : TaskPending(t) ~> TaskEnded(t)

\* a task has ended that no stream was ever opened for
C29_Witness ==
    /\ streams = NoStreams
    /\ \E t \in Threads : TaskEnded(t) /\ Len(written[t]) >= 3

(***************************************************************************)
(* Claims C7-C10: the store's operations.                                  *)
(***************************************************************************)

HasId(areas, id) == \E i \in Positions(areas) : areas[i].id = id

\* C7: delete_area(id) for an id not in the index returns False and leaves
\* the index, the index file and the data files unchanged; and once
\* delete_area(id) has returned True the id is not in the index, so that
\* deleting it again returns False.
C7_DeleteAbsentThenFalse ==
    [][\A id \in Ids : DeleteArea(id) =>
          /\ ~HasId(index, id) => (~ret'.ok /\ UNCHANGED store)
          /\ ret'.ok => ~HasId(index', id)]_vars

\* the first half of C7 alone
C7_DeleteAbsent ==
    [][\A id \in Ids : DeleteArea(id) =>
          (~HasId(index, id) => (~ret'.ok /\ UNCHANGED store))]_vars

\* C8: a cache_area call whose download yields zero records returns None and
\* changes neither the index, the index file nor any data file, from its
\* first step to its return.
C8_EmptyDownloadLeavesStore ==
    [][\A t \in Threads :
          /\ (th[t].pc = "idle" /\ th'[t].pc = "cache_fetch") => UNCHANGED store
          /\ (th[t].pc = "cache_fetch" /\ th'[t].pc = "idle"
                 /\ ret'.ok /\ ret'.err = "-")
               => (ret'.op = "cache" /\ ret'.areas = <<>> /\ UNCHANGED store)]_vars

\* cache_area has returned None for an empty download in a store that holds
\* an area
C8_Witness ==
    /\ ret.op = "cache"
    /\ ret.ok
    /\ ret.err = "-"
    /\ ret.areas = <<>>
    /\ Len(index) = 1
    /\ disk.areas = index

\* C9: a load_geodataframe(id) that returns a dataset for an entry that
\* cache_area returned and that is still in the index (no delete, clear or
\* reload since the load found it) returns as many rows as the entry's
\* building_count.
C9_LoadRowsEqualCount ==
    [][\A t \in Threads : (LoadTouch(t) /\ th[t].tpos # 0) =>
          index[th[t].tpos].count = th[t].rows]_vars

\* the file's mtime is past the one this process recorded
ExternallyNewer == disk.exists /\ disk.mtime > index_mtime

DeleteStep == (\E id \in Ids : DeleteArea(id)) \/ ClearAll

\* the task record names this entry as the area of a complete task
CompleteWith(r, e) == r.status = "complete" /\ r.area = <<e>>

\* the entry is one of areas
Listed(areas, e) == \E i \in 1..Len(areas) : areas[i] = e

\* C31: when a task's record becomes complete with an area, the
\* registration has been made, and unless a delete_area or clear_all has
\* removed the entry since, the entry is in the index and in the index
\* file and the area's data file exists; and from then on a
\* get_cached_areas lists the entry until a delete_area or clear_all step
\* removes it.
C31_RegistrationPrecedesCompletion ==
    [][/\ \A t \in Threads : \A e \in {Registered(t)} :
            (th[t].op = "task" /\ CompleteWith(task_progress'[th[t].tid], e)
               /\ th[t].pc # "idle" /\ th'[t].pc = "idle") =>
                /\ th[t].pc = "cache_done"
                /\ th[t].tpos # 0 =>
                      /\ index[th[t].tpos] = e
                      /\ Listed(disk.areas, e)
                      /\ files[FilePath(e)] > 0
       /\ \A tid \in TaskIds : \A e \in {task_progress[tid].area[i] :
                                             i \in 1..Len(task_progress[tid].area)} :
            /\ (Listed(index, e) /\ ~Listed(index', e)) => DeleteStep
            /\ (GetCachedAreas /\ Listed(index, e)) => Listed(ret'.areas, e)]_vars

\* C32: in a process where every caching task has ended in error, the
\* store is as it was at the start (no entry in the in-memory index, no
\* index file written, no data file in the directory) whenever no task is
\* running.
C32_ErrorTaskLeavesStore ==
    (\A t \in Threads : th[t].pc = "idle") =>
        /\ index = <<>>
        /\ ~disk.exists
        /\ \A f \in Ids : files[f] = 0

\* C33: every entry of the index names a data file that exists in the
\* cache directory.
C33_EntriesNameFiles ==
    \A i \in 1..Len(index) : files[FilePath(index[i])] # 0

\* C34: every entry of the index has a bbox with min_lon <= max_lon and
\* min_lat <= max_lat.
C34_BboxMinBelowMax ==
    \A i \in 1..Len(index) :
        /\ index[i].bbox[1] <= index[i].bbox[3]
        /\ index[i].bbox[2] <= index[i].bbox[4]

\* C35: a mutation of this process keeps what another process has written
\* to the index file: delete_area(id) finds an id that is in the file and
\* leaves the file's entries of other ids in the file, and the access-time
\* update of a load leaves every entry of the file in the file.
C35_MutationsReconcile ==
    [][/\ \A id \in Ids : DeleteArea(id) =>
             /\ HasId(disk.areas, id) => ret'.ok
             /\ \A i \in 1..Len(disk.areas) :
                   disk.areas[i].id # id => Listed(disk'.areas, disk.areas[i])
       /\ \A t \in Threads : LoadTouch(t) =>
             Entries(disk.areas) \subseteq Entries(disk'.areas)]_vars

\* C36: in every state, and so in every state the process can stop in, the
\* index file, if there is one, holds a complete document; and no start of
\* the process fails on the index file.
C36_IndexCrashDurable ==
    /\ disk.exists => disk.whole
    /\ ret.op = "init" => ret.ok

\* C37: the entries of the index have pairwise distinct ids and pairwise
\* distinct file paths.
C37_IdsAndPathsDistinct ==
    \A i, j \in 1..Len(index) :
        i # j => (index[i].id # index[j].id /\ FilePath(index[i]) # FilePath(index[j]))

\* C38: once delete_area(id) has returned True, no entry with that id is in
\* the in-memory index or in the index file; and an id that is not there
\* comes (back) only by the registration of a cache_area call, never by a
\* load that found the entry before the delete and finishes after it.
C38_DeletedNeverResurrected ==
    [][\A id \in Ids :
          /\ (DeleteArea(id) /\ ret'.ok) =>
                (~HasId(index', id) /\ ~HasId(disk'.areas, id))
          /\ (~HasId(index, id) /\ HasId(index', id)) =>
                \E t \in Threads : CacheCommit(t) /\ th[t].id = id
          /\ (~HasId(disk.areas, id) /\ HasId(disk'.areas, id)) =>
                \E t \in Threads : CacheCommit(t) /\ th[t].id = id]_vars

\* C39: for a centre with longitude in [-180, 180] and latitude in
\* [-90, 90] the zone floor((lon + 180) / 6) + 1 lies in 1..60 and the
\* projection is EPSG 32600 + zone for lat >= 0 and EPSG 32700 + zone
\* otherwise.
C39_UtmZoneInRange ==
    ret.op = "utm_crs" =>
        LET zone == ((ret.q.lon + 1800) \div 60) + 1 IN
        /\ zone \in 1..60
        /\ ret.rows = IF ret.q.lat >= 0 THEN 32600 + zone ELSE 32700 + zone

====
